---- MODULE Spec2Model ----
(***************************************************************************)
(* A model of the Laravel API extraction scripts of this repository:       *)
(* the validation-rule compilers (linker_full.parse_validation_rule and    *)
(* LaravelASTExtractor.parse_validation_value), the trait/method rule      *)
(* merge of APIStructureBuilderV3 and the route linkers.                   *)
(*                                                                         *)
(* Python strings are TLA+ strings; str.split, str.strip, startswith, the  *)
(* `in` substring test and int() are computed character by character.      *)
(* A Python None or a missing dict key is the empty sequence None, a       *)
(* present value v is Some(v) = <<v>>.                                      *)
(***************************************************************************)
EXTENDS Integers, Sequences, FiniteSets, TLC

VARIABLES
    rule_call,     \* the last rule-compiler call: the function, its input
    rule_trace,    \* the loop's accumulator before the first and after each token
    rule_result,   \* what the call returned (or that it raised)
    rules,         \* the caller's dict: field name -> compiled rule
    rule_src,      \* field name -> the rule text last compiled for it
    fields_fn,     \* the loop over a rules() array that is running, its state
    elems_done     \* number of array elements the loop has processed

rule_vars == <<rule_call, rule_trace, rule_result, rules, rule_src, fields_fn,
               elems_done>>

VARIABLES
    request,        \* the request class handed to parse_validation_rules_from_ast
    combined_rules  \* None until the call returns, then Some(the returned dict)

merge_vars == <<request, combined_rules>>

VARIABLES
    linker,       \* the script that runs: "linker_full" or "linker_get"
    files,        \* the parsed files of the project, in scan order
    class_index,  \* the ordered dict fqn -> {node, file}, as a sequence
    routes,       \* what route discovery returned
    linked,       \* what route linking returned
    link_pc       \* the script's position: load, indexed, extracted, linked

link_vars == <<linker, files, class_index, routes, linked, link_pc>>

VARIABLES
    fn_call,    \* the last call of a function run on its own: its name, its input
    fn_result   \* None until the call returns, then Some(the returned value)

call_vars == <<fn_call, fn_result>>

\* parse_routes_v2.DetailedASTParser and the project it runs on
VARIABLES
    project,           \* the PHP files on disk: their use statements and content
    ast_dir,           \* the AST directory: AST file name -> its 'dependencies'
    work_pc,           \* where main() is: idle, start, loop, processed, done
    processed_files,   \* self.processed_files
    files_to_process,  \* self.files_to_process
    dependency_tree,   \* self.dependency_tree
    api_index,         \* self.api_index
    saved_index,       \* None, then Some(the index written to api_index.json)
    parsed,            \* file -> how many times self.parser.parse ran on it
    analysed,          \* file -> how many times analyze_structures ran on it
    skipped            \* the files that took the [SKIP] branch

work_vars == <<project, ast_dir, work_pc, processed_files, files_to_process,
               dependency_tree, api_index, saved_index, parsed, analysed, skipped>>

vars == <<rule_vars, merge_vars, link_vars, call_vars, work_vars>>


----------------------------------------------------------------------------
(* Python values *)

None == <<>>
Some(v) == <<v>>

\* no request class is being compiled
NoRequest ==
    [name |-> "", indexed |-> FALSE, ast_file_exists |-> FALSE,
     ast_loaded |-> FALSE, has_class_node |-> FALSE, trait_rules |-> <<>>,
     has_rules_method |-> FALSE, rules_dict |-> <<>>]

MergeIdle == request = NoRequest /\ combined_rules = None

\* no linker script is running
LinkIdle ==
    /\ linker = "none" /\ files = <<>> /\ class_index = <<>>
    /\ routes = <<>> /\ linked = <<>> /\ link_pc = "idle"

\* no function has been run on its own
CallIdle == fn_call = [fn |-> "none"] /\ fn_result = None

WorkIdle ==
    /\ project = <<>> /\ ast_dir = <<>> /\ work_pc = "idle"
    /\ processed_files = {} /\ files_to_process = <<>>
    /\ dependency_tree = <<>> /\ api_index = <<>> /\ saved_index = <<>>
    /\ parsed = <<>> /\ analysed = <<>> /\ skipped = {}

\* no rule compiler has been called
RulesIdle ==
    /\ rule_call = [fn |-> "none"] /\ rule_trace = <<>> /\ rule_result = None
    /\ rules = <<>> /\ rule_src = <<>>
    /\ fields_fn = [name |-> "none", state |-> "idle"] /\ elems_done = 0

----------------------------------------------------------------------------
(* Python string operations *)

\* s[i:j] with 1-based inclusive bounds
Slice(s, i, j) == SubSeq(s, i, j)

StartsWith(s, p) == Len(s) >= Len(p) /\ Slice(s, 1, Len(p)) = p

EndsWith(s, p) == Len(s) >= Len(p) /\ Slice(s, Len(s) - Len(p) + 1, Len(s)) = p

RECURSIVE FindFrom(_, _, _)
FindFrom(s, sub, i) ==
    IF i + Len(sub) - 1 > Len(s) THEN 0
    ELSE IF Slice(s, i, i + Len(sub) - 1) = sub THEN i
    ELSE FindFrom(s, sub, i + 1)

\* str.find, 1-based; 0 when sub does not occur
Find(s, sub) == FindFrom(s, sub, 1)

\* sub in s
Contains(s, sub) == Find(s, sub) > 0

RECURSIVE Split(_, _)
Split(s, sep) ==
    LET i == Find(s, sep) IN
    IF i = 0 THEN <<s>>
    ELSE <<Slice(s, 1, i - 1)>> \o Split(Slice(s, i + Len(sep), Len(s)), sep)

\* s.split(sep, 1)
SplitOnce(s, sep) ==
    LET i == Find(s, sep) IN
    IF i = 0 THEN <<s>>
    ELSE <<Slice(s, 1, i - 1), Slice(s, i + Len(sep), Len(s))>>

RECURSIVE LStripChars(_, _)
LStripChars(s, chars) ==
    IF Len(s) > 0 /\ Slice(s, 1, 1) \in chars
    THEN LStripChars(Slice(s, 2, Len(s)), chars)
    ELSE s

RECURSIVE RStripChars(_, _)
RStripChars(s, chars) ==
    IF Len(s) > 0 /\ Slice(s, Len(s), Len(s)) \in chars
    THEN RStripChars(Slice(s, 1, Len(s) - 1), chars)
    ELSE s

StripChars(s, chars) == RStripChars(LStripChars(s, chars), chars)

Whitespace == {" ", "\t", "\n", "\r"}

\* s.strip()
Strip(s) == StripChars(s, Whitespace)

\* s.strip('\'"')
StripQuotes(s) == StripChars(s, {"'", "\""})

Digits == {"0", "1", "2", "3", "4", "5", "6", "7", "8", "9"}

DigitVal(c) ==
    CASE c = "0" -> 0 [] c = "1" -> 1 [] c = "2" -> 2 [] c = "3" -> 3
      [] c = "4" -> 4 [] c = "5" -> 5 [] c = "6" -> 6 [] c = "7" -> 7
      [] c = "8" -> 8 [] c = "9" -> 9

RECURSIVE AllDigits(_)
AllDigits(s) ==
    Len(s) = 0 \/ (Slice(s, 1, 1) \in Digits /\ AllDigits(Slice(s, 2, Len(s))))

RECURSIVE DigitsVal(_, _)
DigitsVal(s, acc) ==
    IF Len(s) = 0 THEN acc
    ELSE DigitsVal(Slice(s, 2, Len(s)), 10 * acc + DigitVal(Slice(s, 1, 1)))

\* the text int() is given, without surrounding whitespace and sign
IntBody(s) ==
    LET t == Strip(s) IN
    IF Len(t) > 0 /\ Slice(t, 1, 1) \in {"+", "-"} THEN Slice(t, 2, Len(t)) ELSE t

\* int(s) returns (TRUE) or raises ValueError (FALSE)
IntOk(s) == Len(IntBody(s)) > 0 /\ AllDigits(IntBody(s))

\* int(s), where IntOk(s)
IntOf(s) ==
    LET t == Strip(s)
        v == DigitsVal(IntBody(s), 0)
    IN IF Len(t) > 0 /\ Slice(t, 1, 1) = "-" THEN 0 - v ELSE v

\* [f(x) for x in xs]
MapSeq(xs, F(_)) == [k \in 1..Len(xs) |-> F(xs[k])]

----------------------------------------------------------------------------
(* linker_full.py: parse_validation_rule *)

\* variant: the schema and flags of the previous call are carried over
FullInitLeaky ==
    IF rule_call.fn = "parse_validation_rule" /\ ~rule_result.raised
    THEN [schema |-> rule_result.schema, required |-> rule_result.required,
          nullable |-> rule_result.nullable, raised |-> FALSE]
    ELSE [schema |-> [type |-> "string", items |-> None, minLength |-> None,
                      maxLength |-> None, minimum |-> None, maximum |-> None,
                      enum |-> None, format |-> None, minItems |-> None,
                      maxItems |-> None, nullable |-> None],
          required |-> FALSE, nullable |-> FALSE, raised |-> FALSE]

\* schema = {'type': 'string'}; required = False; nullable = False
FullInit ==
    [schema |-> [type |-> "string", items |-> None, minLength |-> None,
                 maxLength |-> None, minimum |-> None, maximum |-> None,
                 enum |-> None, format |-> None, minItems |-> None,
                 maxItems |-> None, nullable |-> None],
     required |-> FALSE, nullable |-> FALSE, raised |-> FALSE]

\* an uncaught ValueError leaves the function: no schema is returned
Raise(acc) == [acc EXCEPT !.raised = TRUE]

FullIsFlag(rule) == rule \in {"required", "nullable", "sometimes"}

FullFlags(acc, rule) ==
    IF rule = "required" THEN [acc EXCEPT !.required = TRUE]
    ELSE [acc EXCEPT !.nullable = TRUE]

FullIsType(rule) == rule \in {"integer", "numeric", "boolean", "array", "string"}

\* variant: a type token is applied only while the type is still the default
FullSetTypeFirstWins(acc, rule) ==
    IF acc.schema.type # "string" THEN acc
    ELSE [acc EXCEPT !.schema.type = IF rule = "numeric" THEN "number" ELSE rule]

FullSetType(acc, rule) ==
    CASE rule = "integer" -> [acc EXCEPT !.schema.type = "integer"]
      [] rule = "numeric" -> [acc EXCEPT !.schema.type = "number"]
      [] rule = "boolean" -> [acc EXCEPT !.schema.type = "boolean"]
      [] rule = "array"   -> [acc EXCEPT !.schema.type = "array",
                                         !.schema.items = Some("string")]
      [] rule = "string"  -> [acc EXCEPT !.schema.type = "string"]

\* rule.split(':')[1]
FullParam(rule) == Split(rule, ":")[2]

FullMin(acc, rule) ==
    LET min_val == FullParam(rule) IN
    IF acc.schema.type = "string"
    THEN IF IntOk(min_val)
         THEN [acc EXCEPT !.schema.minLength = Some(IntOf(min_val))]
         ELSE Raise(acc)
    ELSE IF acc.schema.type \in {"integer", "number"}
    THEN IF IntOk(min_val)
         THEN [acc EXCEPT !.schema.minimum = Some(IntOf(min_val))]
         ELSE Raise(acc)
    ELSE acc

\* variant: max: always bounds the length, whatever the type
FullMaxIgnoresType(acc, rule) ==
    IF IntOk(Split(rule, ":")[2])
    THEN [acc EXCEPT !.schema.maxLength = Some(IntOf(Split(rule, ":")[2]))]
    ELSE Raise(acc)

FullMax(acc, rule) ==
    LET max_val == FullParam(rule) IN
    IF acc.schema.type = "string"
    THEN IF IntOk(max_val)
         THEN [acc EXCEPT !.schema.maxLength = Some(IntOf(max_val))]
         ELSE Raise(acc)
    ELSE IF acc.schema.type \in {"integer", "number"}
    THEN IF IntOk(max_val)
         THEN [acc EXCEPT !.schema.maximum = Some(IntOf(max_val))]
         ELSE Raise(acc)
    ELSE acc

\* variant: the values are split off the whole token, prefix included
FullInKeepsPrefix(acc, rule) ==
    [acc EXCEPT !.schema.enum = Some(MapSeq(Split(rule, ","), Strip))]

\* schema['enum'] = [v.strip() for v in rule[3:].split(',')]
FullIn(acc, rule) ==
    LET enum_str == Slice(rule, 4, Len(rule)) IN
    [acc EXCEPT !.schema.enum = Some(MapSeq(Split(enum_str, ","), Strip))]

FullIsFormat(rule) ==
    StartsWith(rule, "email") \/ rule \in {"url", "date", "datetime"}

FullFormat(acc, rule) ==
    CASE StartsWith(rule, "email") -> [acc EXCEPT !.schema.format = Some("email")]
      [] rule = "url" -> [acc EXCEPT !.schema.format = Some("uri")]
      [] rule = "date" -> [acc EXCEPT !.schema.type = "string",
                                      !.schema.format = Some("date")]
      [] rule = "datetime" -> [acc EXCEPT !.schema.type = "string",
                                          !.schema.format = Some("date-time")]

FullSize(acc, rule) ==
    LET size == FullParam(rule) IN
    IF acc.schema.type = "array"
    THEN IF IntOk(size)
         THEN [acc EXCEPT !.schema.minItems = Some(IntOf(size)),
                          !.schema.maxItems = Some(IntOf(size))]
         ELSE Raise(acc)
    ELSE acc

\* one iteration of `for rule in rules_list`
FullApplyRule(acc, rule) ==
    IF acc.raised THEN acc
    ELSE CASE FullIsFlag(rule) -> FullFlags(acc, rule)
           [] FullIsType(rule) -> FullSetType(acc, rule)
           [] StartsWith(rule, "min:") -> FullMin(acc, rule)
           [] StartsWith(rule, "max:") -> FullMax(acc, rule)
           [] StartsWith(rule, "in:") -> FullIn(acc, rule)
           [] FullIsFormat(rule) -> FullFormat(acc, rule)
           [] StartsWith(rule, "size:") -> FullSize(acc, rule)
           [] OTHER -> acc

\* rules_list = [r.strip() for r in rule_str.split('|')]
FullRulesList(rule_str) == MapSeq(Split(rule_str, "|"), Strip)

\* the accumulator before the first token and after each token
RECURSIVE FullTrace(_, _)
FullTrace(rules_list, k) ==
    IF k = 0 THEN <<FullInit>>
    ELSE LET before == FullTrace(rules_list, k - 1) IN
         Append(before, FullApplyRule(before[k], rules_list[k]))

ValueError == [raised |-> TRUE]

\* if nullable: schema['nullable'] = True; return {...}
FullReturn(acc) ==
    IF acc.raised THEN ValueError
    ELSE [raised |-> FALSE,
          schema |-> IF acc.nullable
                     THEN [acc.schema EXCEPT !.nullable = Some(TRUE)]
                     ELSE acc.schema,
          required |-> acc.required,
          nullable |-> acc.nullable]

parse_validation_rule(rule_str) ==
    LET rules_list == FullRulesList(rule_str)
        trace == FullTrace(rules_list, Len(rules_list))
    IN FullReturn(trace[Len(trace)])

----------------------------------------------------------------------------
(* laravel_api_extractor.py: parse_single_rule, parse_validation_value *)

\* ValidationRule(rule_name=rule_str), then the ':' branch
parse_single_rule(rule_str) ==
    LET parts == SplitOnce(rule_str, ":")
        has_colon == Contains(rule_str, ":")
        rule_name == IF has_colon THEN parts[1] ELSE rule_str
        parameters == IF has_colon
                      THEN MapSeq(Split(parts[2], ","), Strip)
                      ELSE <<>>
    IN [rule_name |-> rule_name,
        parameters |-> parameters,
        required |-> (rule_name = "required"),
        enum_values |-> IF has_colon /\ rule_name = "in" THEN parameters ELSE <<>>]

\* FieldValidation(field_name="")
FieldValidation(field_name) ==
    [field_name |-> field_name, field_type |-> "string", required |-> FALSE,
     nullable |-> FALSE, rules |-> <<>>, nested_fields |-> <<>>,
     is_array |-> FALSE, enum_values |-> <<>>, min_value |-> None,
     max_value |-> None, default_value |-> None]

StringNodeTypes == {"string", "encapsed_string"}

\* the rule strings read off the value node
ValueRuleStrings(value_node) ==
    IF value_node.type \in StringNodeTypes
    THEN MapSeq(Split(StripQuotes(value_node.text), "|"), Strip)
    ELSE IF value_node.type = "array_creation_expression"
    THEN LET vals == SelectSeq(value_node.elements,
                               LAMBDA val : val.type \in StringNodeTypes)
         IN MapSeq(vals, LAMBDA val : StripQuotes(val.text))
    ELSE <<>>

ExtTypeTokens ==
    {"string", "integer", "numeric", "boolean", "array", "file", "image"}

ExtSetFlags(validation, parsed_rule) ==
    IF parsed_rule.rule_name = "required"
    THEN [validation EXCEPT !.required = TRUE]
    ELSE [validation EXCEPT !.nullable = TRUE]

ExtSetType(validation, parsed_rule) ==
    [validation EXCEPT !.field_type = parsed_rule.rule_name]

\* try: validation.min_value = int(...) except ValueError: pass
ExtMin(validation, parsed_rule) ==
    IF IntOk(parsed_rule.parameters[1])
    THEN [validation EXCEPT !.min_value = Some(IntOf(parsed_rule.parameters[1]))]
    ELSE validation

ExtMax(validation, parsed_rule) ==
    IF IntOk(parsed_rule.parameters[1])
    THEN [validation EXCEPT !.max_value = Some(IntOf(parsed_rule.parameters[1]))]
    ELSE validation

ExtIn(validation, parsed_rule) ==
    [validation EXCEPT !.enum_values = parsed_rule.parameters]

ExtEnum(validation, parsed_rule) ==
    [validation EXCEPT !.enum_values = parsed_rule.enum_values]

\* one iteration of `for rule_str in rule_strings`
ExtApplyRule(validation, rule_str) ==
    LET parsed_rule == parse_single_rule(rule_str)
        name == parsed_rule.rule_name
        has_params == Len(parsed_rule.parameters) > 0
        v == [validation EXCEPT !.rules = Append(@, parsed_rule)]
    IN CASE name \in {"required", "nullable"} -> ExtSetFlags(v, parsed_rule)
         [] name \in ExtTypeTokens -> ExtSetType(v, parsed_rule)
         [] name = "min" /\ has_params -> ExtMin(v, parsed_rule)
         [] name = "max" /\ has_params -> ExtMax(v, parsed_rule)
         [] name = "in" /\ has_params -> ExtIn(v, parsed_rule)
         [] StartsWith(name, "enum") -> ExtEnum(v, parsed_rule)
         [] OTHER -> v

RECURSIVE ExtTrace(_, _)
ExtTrace(rule_strings, k) ==
    IF k = 0 THEN <<FieldValidation("")>>
    ELSE LET before == ExtTrace(rule_strings, k - 1) IN
         Append(before, ExtApplyRule(before[k], rule_strings[k]))

parse_validation_value(value_node) ==
    LET rule_strings == ValueRuleStrings(value_node)
        trace == ExtTrace(rule_strings, Len(rule_strings))
    IN trace[Len(trace)]

----------------------------------------------------------------------------
(* Rule lists the compilers are run on *)

MaxRules == 2

Tok(name, params) == [name |-> name, params |-> params]

RuleTokens ==
    {Tok("required", <<>>), Tok("nullable", <<>>), Tok("sometimes", <<>>),
     Tok("string", <<>>), Tok("integer", <<>>), Tok("numeric", <<>>),
     Tok("boolean", <<>>), Tok("array", <<>>), Tok("file", <<>>),
     Tok("image", <<>>), Tok("date", <<>>),
     Tok("min", <<"3">>), Tok("max", <<"10">>), Tok("max", <<"abc">>),
     Tok("in", <<"active", "archived">>), Tok("enum", <<"Status">>)}

RuleLists == UNION {[1..n -> RuleTokens] : n \in 1..MaxRules}

RECURSIVE JoinWith(_, _)
JoinWith(strs, sep) ==
    IF Len(strs) = 0 THEN ""
    ELSE IF Len(strs) = 1 THEN strs[1]
    ELSE strs[1] \o sep \o JoinWith(Tail(strs), sep)

\* the source text of one token: name, or name:p1,p2,...
TokenText(t) ==
    IF Len(t.params) = 0 THEN t.name
    ELSE t.name \o ":" \o JoinWith(t.params, ",")

\* 'required|max:10'
RuleString(tokens) == JoinWith(MapSeq(tokens, TokenText), "|")

\* the PHP string literal node holding the pipe-delimited rules
StringNode(tokens) ==
    [type |-> "string", text |-> "'" \o RuleString(tokens) \o "'"]

\* the PHP array literal node ['required', 'max:10']
ArrayNode(tokens) ==
    [type |-> "array_creation_expression",
     elements |-> MapSeq(tokens, LAMBDA t :
                      [type |-> "string", text |-> "'" \o TokenText(t) \o "'"])]

----------------------------------------------------------------------------
(* One call of a rule compiler *)

NoCall == [fn |-> "none"]

\* linker_full: parse_validation_rule(rule_str)
CompileRule(tokens) ==
    LET rule_str == RuleString(tokens)
        rules_list == FullRulesList(rule_str)
    IN /\ rule_call = NoCall
       /\ rule_call' = [fn |-> "parse_validation_rule", tokens |-> tokens,
                        rules_list |-> rules_list]
       /\ rule_trace' = FullTrace(rules_list, Len(rules_list))
       /\ rule_result' = parse_validation_rule(rule_str)
       /\ UNCHANGED <<rules, rule_src, fields_fn, elems_done, merge_vars, link_vars, call_vars,
                 work_vars>>

\* laravel_api_extractor: parse_validation_value(value_node, source)
CompileValue(tokens, value_node) ==
    LET rule_strings == ValueRuleStrings(value_node) IN
    /\ rule_call = NoCall
    /\ rule_call' = [fn |-> "parse_validation_value", tokens |-> tokens,
                     rules_list |-> rule_strings, node |-> value_node.type]
    /\ rule_trace' = ExtTrace(rule_strings, Len(rule_strings))
    /\ rule_result' = parse_validation_value(value_node)
    /\ UNCHANGED <<rules, rule_src, fields_fn, elems_done, merge_vars, link_vars, call_vars,
                 work_vars>>

InitRules ==
    /\ rule_call = NoCall
    /\ rule_trace = <<>>
    /\ rule_result = None
    /\ rules = <<>>
    /\ rule_src = <<>>
    /\ fields_fn = [name |-> "none", state |-> "idle"]
    /\ elems_done = 0
    /\ MergeIdle
    /\ LinkIdle
    /\ CallIdle
    /\ WorkIdle

NextRules ==
    \/ \E tokens \in RuleLists : CompileRule(tokens)
    \/ \E tokens \in RuleLists : CompileValue(tokens, StringNode(tokens))
    \/ \E tokens \in RuleLists : CompileValue(tokens, ArrayNode(tokens))

SpecRules == InitRules /\ [][NextRules]_vars

----------------------------------------------------------------------------
(* laravel_api_extractor.py: handle_nested_validation *)

\* '.'.join(parts[2:]) if len(parts) > 2 else parts[-1]
NestedPath(parts) ==
    IF Len(parts) > 2 THEN JoinWith(SubSeq(parts, 3, Len(parts)), ".")
    ELSE parts[Len(parts)]

\* variant: a wildcard name is stored like any other dotted name
HandleNestedFlat(field_path, validation) ==
    (field_path :> [validation EXCEPT !.field_name = field_path])

handle_nested_validation(field_path, validation) ==
    LET parts == Split(field_path, ".") IN
    IF \E k \in 1..Len(parts) : parts[k] = "*"
    THEN LET base_field == parts[1]
             nested_path == NestedPath(parts)
             base == [FieldValidation(base_field) EXCEPT !.is_array = TRUE]
         IN (base_field :> [base EXCEPT !.nested_fields =
                (nested_path :> [validation EXCEPT !.field_name = nested_path])])
    ELSE (field_path :> [validation EXCEPT !.field_name = field_path])

----------------------------------------------------------------------------
(* The loops over the elements of a rules() array:                         *)
(* linker_full.find_validation_rules and                                   *)
(* LaravelASTExtractor.parse_validation_array                              *)

MaxElems == 3

FieldNames == {"status", "user.email"}

FieldRuleLists ==
    {<<Tok("required", <<>>)>>, <<Tok("integer", <<>>)>>,
     <<Tok("required", <<>>), Tok("max", <<"10">>)>>,
     <<Tok("max", <<"abc">>)>>}

\* the text of one array element: 'status' => 'required|max:10'
ElementText(field_name, tokens) ==
    "'" \o field_name \o "' => '" \o RuleString(tokens) \o "'"

\* dict.update / dict[key] = value: the entries of e replace those of d
Update(d, e) == e @@ d

\* linker_full.find_validation_rules: one array_element_initializer child
FindRulesElement(field, tokens) ==
    LET text == ElementText(field, tokens)
        parts == SplitOnce(text, "=>")
        field_name == StripQuotes(Strip(parts[1]))
        rules_str == StripQuotes(Strip(parts[2]))
        rules_list == FullRulesList(rules_str)
        result == parse_validation_rule(rules_str)
    IN /\ fields_fn = [name |-> "find_validation_rules", state |-> "running"]
       /\ elems_done < MaxElems
       /\ Contains(text, "=>")
       /\ rule_call' = [fn |-> "parse_validation_rule", tokens |-> tokens,
                        rules_list |-> rules_list]
       /\ rule_trace' = FullTrace(rules_list, Len(rules_list))
       /\ rule_result' = result
       /\ elems_done' = elems_done + 1
       /\ IF result.raised
          THEN /\ fields_fn' = [fields_fn EXCEPT !.state = "raised"]
               /\ UNCHANGED <<rules, rule_src>>
          ELSE /\ rules' = Update(rules, field_name :> result)
               /\ rule_src' = Update(rule_src, field_name :> rules_str)
               /\ UNCHANGED fields_fn
       /\ UNCHANGED <<merge_vars, link_vars, call_vars,
                 work_vars>>

\* parse_validation_array: what one array_element does to the dict rules
FoldElement(rs, field_name, validation) ==
    IF Contains(field_name, ".")
    THEN Update(rs, handle_nested_validation(field_name, validation))
    ELSE Update(rs, field_name :> validation)

\* parse_validation_array on the elements <<[key, value], ...>>, key the text
\* of the key node and value the value node
RECURSIVE ParseArrayFrom(_, _, _)
ParseArrayFrom(elements, k, rs) ==
    IF k > Len(elements) THEN rs
    ELSE ParseArrayFrom(elements, k + 1,
            FoldElement(rs, StripQuotes(elements[k].key),
                        parse_validation_value(elements[k].value)))

parse_validation_array(elements) == ParseArrayFrom(elements, 1, <<>>)

\* LaravelASTExtractor.parse_validation_array: one array_element
ParseArrayElement(field, tokens) ==
    LET key_text == "'" \o field \o "'"
        value_node == StringNode(tokens)
        field_name == StripQuotes(key_text)
        rule_strings == ValueRuleStrings(value_node)
        validation == parse_validation_value(value_node)
    IN /\ fields_fn = [name |-> "parse_validation_array", state |-> "running"]
       /\ elems_done < MaxElems
       /\ rule_call' = [fn |-> "parse_validation_value", tokens |-> tokens,
                        rules_list |-> rule_strings, node |-> value_node.type]
       /\ rule_trace' = ExtTrace(rule_strings, Len(rule_strings))
       /\ rule_result' = validation
       /\ elems_done' = elems_done + 1
       /\ rules' = FoldElement(rules, field_name, validation)
       /\ rule_src' = Update(rule_src, field_name :> RuleString(tokens))
       /\ UNCHANGED <<fields_fn, merge_vars, link_vars, call_vars,
                 work_vars>>

InitFields ==
    /\ rule_call = NoCall
    /\ rule_trace = <<>>
    /\ rule_result = None
    /\ rules = <<>>
    /\ rule_src = <<>>
    /\ fields_fn \in {[name |-> "find_validation_rules", state |-> "running"],
                      [name |-> "parse_validation_array", state |-> "running"]}
    /\ elems_done = 0
    /\ MergeIdle
    /\ LinkIdle
    /\ CallIdle
    /\ WorkIdle

NextFields ==
    \/ \E f \in FieldNames, tokens \in FieldRuleLists : FindRulesElement(f, tokens)
    \/ \E f \in FieldNames, tokens \in FieldRuleLists : ParseArrayElement(f, tokens)

SpecFields == InitFields /\ [][NextFields]_vars

----------------------------------------------------------------------------
(* LaravelASTExtractor.parse_validation_array on dotted and wildcard names *)

FoldNames ==
    {"status", "user.email", "user.name", "items.*.name", "items.*.price",
     "a.b.*.c", "tags.*"}

FoldRuleLists == {<<Tok("required", <<>>)>>, <<Tok("integer", <<>>)>>}

InitFold ==
    /\ rule_call = NoCall
    /\ rule_trace = <<>>
    /\ rule_result = None
    /\ rules = <<>>
    /\ rule_src = <<>>
    /\ fields_fn = [name |-> "parse_validation_array", state |-> "running"]
    /\ elems_done = 0
    /\ MergeIdle
    /\ LinkIdle
    /\ CallIdle
    /\ WorkIdle

NextFold ==
    \E f \in FoldNames, tokens \in FoldRuleLists : ParseArrayElement(f, tokens)

SpecFold == InitFold /\ [][NextFold]_vars

----------------------------------------------------------------------------
(* build_api_structure_v3.py: parse_validation_rules_from_ast *)

\* variant: the rule texts of the two sources are joined for a shared field
MergeRulesJoinsTokens(trait_rules, rules_dict) ==
    [f \in DOMAIN trait_rules \cup DOMAIN rules_dict |->
        IF f \in DOMAIN trait_rules /\ f \in DOMAIN rules_dict
        THEN trait_rules[f] \o "|" \o rules_dict[f]
        ELSE IF f \in DOMAIN rules_dict THEN rules_dict[f] ELSE trait_rules[f]]

\* variant: the dicts are merged in the other order
MergeRulesTraitWins(trait_rules, rules_dict) == Update(rules_dict, trait_rules)

\* combined_rules = {**trait_rules, **rules_dict}
MergeRules(trait_rules, rules_dict) == Update(trait_rules, rules_dict)

\* trait_rules = {}; if class_node: trait_rules = extract_all_trait_rules(...)
TraitRulesOf(req) == IF req.has_class_node THEN req.trait_rules ELSE <<>>

parse_validation_rules_from_ast(req) ==
    IF req.name = "" THEN <<>>
    ELSE IF ~req.indexed THEN <<>>
    ELSE IF ~req.ast_file_exists THEN <<>>
    ELSE IF ~req.ast_loaded THEN <<>>
    ELSE IF ~req.has_rules_method THEN TraitRulesOf(req)
    ELSE MergeRules(TraitRulesOf(req), req.rules_dict)

MergeFields == {"status", "per_page"}

MergeRuleTexts == {"nullable", "required", "integer|min:3"}

\* the dicts a rules source can contribute: some of the fields, a text each
RuleDicts ==
    UNION {[fs -> MergeRuleTexts] : fs \in SUBSET MergeFields}

Requests ==
    [name : {"", "IndexItemsRequest"}, indexed : BOOLEAN,
     ast_file_exists : BOOLEAN, ast_loaded : BOOLEAN, has_class_node : BOOLEAN,
     trait_rules : RuleDicts, has_rules_method : BOOLEAN, rules_dict : RuleDicts]

\* the request class reaches the merge: indexed, its AST file read
Loaded(req) ==
    req.name # "" /\ req.indexed /\ req.ast_file_exists /\ req.ast_loaded

ParseValidationRulesFromAst ==
    /\ combined_rules = None
    /\ combined_rules' = Some(parse_validation_rules_from_ast(request))
    /\ UNCHANGED <<request, rule_vars, link_vars, call_vars,
                 work_vars>>

InitMerge ==
    /\ request \in {req \in Requests :
            \* what an unread file holds does not reach the function
            /\ ~Loaded(req) =>
                   /\ req.trait_rules = <<>> /\ req.rules_dict = <<>>
                   /\ ~req.has_class_node /\ ~req.has_rules_method
            /\ ~req.has_rules_method => req.rules_dict = <<>>
            /\ ~req.has_class_node => req.trait_rules = <<>>}
    /\ combined_rules = None
    /\ RulesIdle
    /\ LinkIdle
    /\ CallIdle
    /\ WorkIdle

NextMerge == ParseValidationRulesFromAst

SpecMerge == InitMerge /\ [][NextMerge]_vars

----------------------------------------------------------------------------
(* Python str.lower / str.upper, ordered dicts, syntax-tree nodes *)

LowerChars == "abcdefghijklmnopqrstuvwxyz"
UpperChars == "ABCDEFGHIJKLMNOPQRSTUVWXYZ"

LowerChar(c) ==
    LET i == Find(UpperChars, c) IN IF i > 0 THEN Slice(LowerChars, i, i) ELSE c

UpperChar(c) ==
    LET i == Find(LowerChars, c) IN IF i > 0 THEN Slice(UpperChars, i, i) ELSE c

RECURSIVE Lower(_)
Lower(s) ==
    IF Len(s) = 0 THEN "" ELSE LowerChar(Slice(s, 1, 1)) \o Lower(Slice(s, 2, Len(s)))

RECURSIVE Upper(_)
Upper(s) ==
    IF Len(s) = 0 THEN "" ELSE UpperChar(Slice(s, 1, 1)) \o Upper(Slice(s, 2, Len(s)))

\* any(x in s for x in subs)
ContainsAny(s, subs) == \E x \in subs : Contains(s, x)

MinOf(ks) == CHOOSE k \in ks : \A j \in ks : k <= j

\* a dict in insertion order: a sequence of [key, value] with distinct keys
DictHas(d, key) == \E k \in 1..Len(d) : d[k].key = key

\* a dict that keeps the first value stored under a key
DictPutFirstWins(d, key, value) ==
    IF DictHas(d, key) THEN d ELSE Append(d, [key |-> key, value |-> value])

\* d[key] = value: a new key goes last, a known key keeps its place
DictPut(d, key, value) ==
    IF DictHas(d, key)
    THEN [k \in 1..Len(d) |->
            IF d[k].key = key THEN [key |-> key, value |-> value] ELSE d[k]]
    ELSE Append(d, [key |-> key, value |-> value])

\* a method_declaration: its name, the type texts of its parameters, the
\* texts of its return statements in source order, and the element texts of
\* the first array literal under a return statement (None without one)
Method(name, params, returns, array) ==
    [name |-> name, params |-> params, returns |-> returns, array |-> array]

\* a class_declaration
Class(name, methods) == [name |-> name, methods |-> methods]

\* the first method_declaration named method_name under the class node
find_method_in_class(class_node, method_name) ==
    LET ks == {k \in 1..Len(class_node.methods) :
                  class_node.methods[k].name = method_name}
    IN IF ks = {} THEN None ELSE Some(class_node.methods[MinOf(ks)])

\* text.split('=>', 1): the key and the value of an array element
ElemKey(text) == StripQuotes(Strip(SplitOnce(text, "=>")[1]))
ElemValue(text) == Strip(SplitOnce(text, "=>")[2])

----------------------------------------------------------------------------
(* linker_full.py / linker_get.py: build_class_index *)

FileFqn(file_data, cls) ==
    IF file_data.namespace # "" THEN file_data.namespace \o "\\" \o cls.name
    ELSE cls.name

RECURSIVE IndexFileClasses(_, _, _)
IndexFileClasses(index, file_data, k) ==
    IF k > Len(file_data.classes) THEN index
    ELSE LET cls == file_data.classes[k]
             next == IF cls.name # ""
                     THEN DictPut(index, FileFqn(file_data, cls),
                                  [node |-> cls, file |-> file_data.file])
                     ELSE index
         IN IndexFileClasses(next, file_data, k + 1)

RECURSIVE IndexFiles(_, _, _)
IndexFiles(index, fs, i) ==
    IF i > Len(fs) THEN index
    ELSE IndexFiles(IndexFileClasses(index, fs[i], 1), fs, i + 1)

build_class_index(fs) == IndexFiles(<<>>, fs, 1)

\* a resolution that prefers the entry whose simple name is the reference
ExactClassFirst(index, name) ==
    LET ks == {k \in 1..Len(index) : Contains(index[k].key, name)}
        es == {k \in ks : LET parts == Split(index[k].key, "\\")
                          IN parts[Len(parts)] = name}
    IN IF ks = {} THEN None
       ELSE IF es # {} THEN Some(index[MinOf(es)].value)
       ELSE Some(index[MinOf(ks)].value)

\* for fqn, class_info in class_index.items(): if name in fqn: ...; break
FirstClassContaining(index, name) ==
    LET ks == {k \in 1..Len(index) : Contains(index[k].key, name)} IN
    IF ks = {} THEN None ELSE Some(index[MinOf(ks)].value)

----------------------------------------------------------------------------
(* linker_full.py: route discovery *)

\* extract_string_from_arg
extract_string_from_arg(arg) ==
    IF arg.kind = "string" THEN Some(StripQuotes(arg.text)) ELSE None

\* extract_controller_from_arg: {'controller':..., 'action':...} or None
extract_controller_from_arg(arg) ==
    IF arg.kind = "array" /\ (arg.controller # None \/ arg.action # None)
    THEN Some([controller |-> arg.controller, action |-> arg.action])
    ELSE None

Truthy(opt) == opt # None /\ opt[1] # ""

parse_route_call_node(node) ==
    IF node.scope # "Route" \/ node.name = "" THEN None
    ELSE LET arguments == node.arguments
             path == IF Len(arguments) >= 1
                     THEN extract_string_from_arg(arguments[1]) ELSE None
             info == IF Len(arguments) >= 2
                     THEN extract_controller_from_arg(arguments[2]) ELSE None
         IN Some([method |-> Upper(node.name), line |-> node.line,
                  path |-> IF Truthy(path) THEN path ELSE None,
                  controller |-> IF info # None THEN info[1].controller ELSE None,
                  action |-> IF info # None THEN info[1].action ELSE None])

IsRoutesFile(file_data) == Contains(Lower(file_data.file), "routes")

RECURSIVE ExtractFileRoutes(_, _, _)
ExtractFileRoutes(file_data, k, acc) ==
    IF k > Len(file_data.route_calls) THEN acc
    ELSE LET route_info == parse_route_call_node(file_data.route_calls[k]) IN
         ExtractFileRoutes(file_data, k + 1,
            IF route_info # None
            THEN Append(acc, [route |-> route_info[1], file |-> file_data.file])
            ELSE acc)

RECURSIVE ExtractRoutesFrom(_, _, _)
ExtractRoutesFrom(fs, i, acc) ==
    IF i > Len(fs) THEN acc
    ELSE ExtractRoutesFrom(fs, i + 1,
            IF IsRoutesFile(fs[i]) THEN ExtractFileRoutes(fs[i], 1, acc) ELSE acc)

extract_routes(fs) ==
    MapSeq(ExtractRoutesFrom(fs, 1, <<>>),
           LAMBDA r : [method |-> r.route.method, line |-> r.route.line,
                       path |-> r.route.path, controller |-> r.route.controller,
                       action |-> r.route.action, source_file |-> r.file])

----------------------------------------------------------------------------
(* linker_get.py: route discovery *)

parse_get_route(arguments, line, file_path) ==
    IF Len(arguments) < 2 THEN None
    ELSE LET path == extract_string_from_arg(arguments[1])
             controller == IF arguments[2].kind = "array"
                           THEN arguments[2].controller ELSE None
             action == IF arguments[2].kind = "array"
                       THEN arguments[2].action ELSE None
         IN IF ~Truthy(path) \/ ~Truthy(controller) \/ ~Truthy(action) THEN None
            ELSE Some([path |-> path, controller |-> controller,
                       action |-> action, line |-> line, file |-> file_path])

RECURSIVE FindFileRoutes(_, _, _)
FindFileRoutes(file_data, k, acc) ==
    IF k > Len(file_data.route_calls) THEN acc
    ELSE LET node == file_data.route_calls[k]
             route_info ==
                 IF node.scope = "Route" /\ node.name # "" /\ Upper(node.name) = "GET"
                 THEN parse_get_route(node.arguments, node.line, file_data.file)
                 ELSE None
         IN FindFileRoutes(file_data, k + 1,
                IF route_info # None THEN Append(acc, route_info[1]) ELSE acc)

RECURSIVE FindRoutesFrom(_, _, _)
FindRoutesFrom(fs, i, acc) ==
    IF i > Len(fs) THEN acc
    ELSE FindRoutesFrom(fs, i + 1,
            IF IsRoutesFile(fs[i]) THEN FindFileRoutes(fs[i], 1, acc) ELSE acc)

find_routes(fs) == FindRoutesFrom(fs, 1, <<>>)

----------------------------------------------------------------------------
(* linker_full.py: find_validation_rules, extract_request_from_method *)

Returned(value) == [raised |-> FALSE, value |-> value]

\* the loop over the array_element_initializer children; a ValueError of
\* parse_validation_rule is not caught and leaves the function
RECURSIVE FindRulesLoop(_, _, _)
FindRulesLoop(elems, k, acc) ==
    IF k > Len(elems) THEN Returned(acc)
    ELSE IF ~Contains(elems[k], "=>") THEN FindRulesLoop(elems, k + 1, acc)
    ELSE LET result == parse_validation_rule(StripQuotes(ElemValue(elems[k]))) IN
         IF result.raised THEN [raised |-> TRUE, value |-> acc]
         ELSE FindRulesLoop(elems, k + 1, Update(acc, ElemKey(elems[k]) :> result))

find_validation_rules(class_node) ==
    LET rules_method == find_method_in_class(class_node, "rules") IN
    IF rules_method = None THEN Returned(<<>>)
    ELSE IF rules_method[1].array = None THEN Returned(<<>>)
    ELSE FindRulesLoop(rules_method[1].array[1], 1, <<>>)

\* the first parameter whose type text has 'Request' and is contained in
\* an indexed name decides; its class is the first such name
extract_request_from_method(method_node, index) ==
    LET params == method_node.params
        ks == {k \in 1..Len(params) :
                 /\ params[k] # ""
                 /\ Contains(params[k], "Request")
                 /\ FirstClassContaining(index, params[k]) # None}
    IN IF ks = {} THEN Returned(<<>>)
       ELSE find_validation_rules(
                FirstClassContaining(index, params[MinOf(ks)])[1].node)

----------------------------------------------------------------------------
(* linker_full.py / linker_get.py: response extraction *)

\* fqn.split('\\')[-1]
ShortName(fqn) == LET parts == Split(fqn, "\\") IN parts[Len(parts)]

\* toArray(), or transform() when there is no toArray()
ToArrayOf(class_node) ==
    LET to_array == find_method_in_class(class_node, "toArray") IN
    IF to_array # None THEN to_array
    ELSE find_method_in_class(class_node, "transform")

\* <<k, j>>: return statement k names the Resource/Transformer class at
\* place j of the index, and that class has toArray() or transform()
ResponseCandidates(method_node, index) ==
    {p \in (1..Len(method_node.returns)) \X (1..Len(index)) :
        LET class_name == ShortName(index[p[2]].key) IN
        /\ ContainsAny(class_name, {"Resource", "Transformer"})
        /\ Contains(method_node.returns[p[1]], class_name)
        /\ ToArrayOf(index[p[2]].value.node) # None}

\* the first pair the nested loops reach
FirstPair(ps) ==
    CHOOSE p \in ps : \A q \in ps :
        p[1] < q[1] \/ (p[1] = q[1] /\ p[2] <= q[2])

\* linker_full: the field schema inside extract_array_schema_from_method
FullFieldSchema(field_name, field_value) ==
    IF ~Contains(field_value, "$this->") THEN [type |-> "string"]
    ELSE IF ContainsAny(field_name, {"id", "count", "number"})
         THEN [type |-> "integer"]
    ELSE IF ContainsAny(field_name, {"created_at", "updated_at", "date"})
         THEN [type |-> "string", format |-> "date-time"]
    ELSE IF ContainsAny(field_name, {"is_", "has_"}) THEN [type |-> "boolean"]
    ELSE [type |-> "string"]

\* linker_get
infer_type_from_value(field_name, field_value) ==
    IF ContainsAny(field_name, {"_id", "id", "count", "number", "amount", "quantity"})
    THEN [type |-> "integer"]
    ELSE IF ContainsAny(field_name, {"is_", "has_", "can_", "should_"})
    THEN [type |-> "boolean"]
    ELSE IF ContainsAny(field_name, {"_at", "date", "time"})
    THEN [type |-> "string", format |-> "date-time"]
    ELSE IF Contains(field_value, "[") \/ Contains(Lower(field_value), "array")
    THEN [type |-> "array", items |-> [type |-> "object"]]
    ELSE [type |-> "string"]

FieldSchema(script, field_name, field_value) ==
    IF script = "linker_full" THEN FullFieldSchema(field_name, field_value)
    ELSE infer_type_from_value(field_name, field_value)

\* the loop over the elements of the returned array, the same in both scripts
RECURSIVE ArraySchemaLoop(_, _, _, _)
ArraySchemaLoop(script, elems, k, acc) ==
    IF k > Len(elems) THEN acc
    ELSE IF ~Contains(elems[k], "=>") THEN ArraySchemaLoop(script, elems, k + 1, acc)
    ELSE LET field_name == ElemKey(elems[k])
             field_value == ElemValue(elems[k])
             is_required == /\ ~Contains(field_name, "deleted_at")
                            /\ ~Contains(Lower(field_value), "null")
         IN ArraySchemaLoop(script, elems, k + 1,
              [properties |-> Update(acc.properties,
                    field_name :> FieldSchema(script, field_name, field_value)),
               required |-> IF is_required THEN Append(acc.required, field_name)
                            ELSE acc.required])

NoFields == [properties |-> <<>>, required |-> <<>>]

\* linker_full
extract_array_schema_from_method(method_node) ==
    IF method_node.array = None THEN <<>>
    ELSE LET r == ArraySchemaLoop("linker_full", method_node.array[1], 1, NoFields) IN
         [type |-> "object", properties |-> r.properties, required |-> r.required]

\* linker_full: the first candidate decides, whatever its schema
extract_response_from_method(method_node, index) ==
    LET ps == ResponseCandidates(method_node, index) IN
    IF ps = {} THEN <<>>
    ELSE extract_array_schema_from_method(
             ToArrayOf(index[FirstPair(ps)[2]].value.node)[1])

\* linker_get
parse_to_array_method(method_node) ==
    IF method_node.array = None THEN <<>>
    ELSE LET r == ArraySchemaLoop("linker_get", method_node.array[1], 1, NoFields) IN
         IF r.properties = <<>> THEN <<>>
         ELSE IF r.required = <<>>
         THEN [type |-> "object", properties |-> r.properties]
         ELSE [type |-> "object", properties |-> r.properties,
               required |-> r.required]

\* linker_get: the first candidate whose schema has properties decides
extract_response_schema(method_node, index) ==
    LET ps == {p \in ResponseCandidates(method_node, index) :
                  parse_to_array_method(
                      ToArrayOf(index[p[2]].value.node)[1]) # <<>>}
    IN IF ps = {} THEN <<>>
       ELSE parse_to_array_method(ToArrayOf(index[FirstPair(ps)[2]].value.node)[1])

----------------------------------------------------------------------------
(* linker_full.py: link_routes_to_schemas; linker_get.py: link_get_routes *)

RECURSIVE LinkFullLoop(_, _, _, _)
LinkFullLoop(rs, index, k, acc) ==
    IF k > Len(rs) THEN Returned(acc)
    ELSE LET route == rs[k] IN
    IF ~Truthy(route.controller) \/ ~Truthy(route.action)
    THEN LinkFullLoop(rs, index, k + 1, acc)
    ELSE LET controller_class == FirstClassContaining(index, route.controller[1]) IN
    IF controller_class = None THEN LinkFullLoop(rs, index, k + 1, acc)
    ELSE LET method_node ==
                 find_method_in_class(controller_class[1].node, route.action[1]) IN
    IF method_node = None THEN LinkFullLoop(rs, index, k + 1, acc)
    ELSE LET request_params == extract_request_from_method(method_node[1], index) IN
    IF request_params.raised THEN [raised |-> TRUE, value |-> acc]
    ELSE LinkFullLoop(rs, index, k + 1,
            Append(acc, [method |-> route.method, path |-> route.path,
                         controller |-> route.controller[1],
                         action |-> route.action[1],
                         parameters |-> request_params.value,
                         response |-> extract_response_from_method(method_node[1], index),
                         line |-> route.line, file |-> route.source_file]))

link_routes_to_schemas(rs, index) == LinkFullLoop(rs, index, 1, <<>>)

RECURSIVE LinkGetLoop(_, _, _, _)
LinkGetLoop(rs, index, k, acc) ==
    IF k > Len(rs) THEN acc
    ELSE LET route == rs[k]
             controller_class == FirstClassContaining(index, route.controller[1])
         IN
    IF controller_class = None THEN LinkGetLoop(rs, index, k + 1, acc)
    ELSE LET method_node ==
                 find_method_in_class(controller_class[1].node, route.action[1]) IN
    IF method_node = None THEN LinkGetLoop(rs, index, k + 1, acc)
    ELSE LinkGetLoop(rs, index, k + 1,
            Append(acc, [path |-> route.path[1],
                         controller |-> route.controller[1],
                         action |-> route.action[1],
                         response |-> extract_response_schema(method_node[1], index),
                         line |-> route.line]))

link_get_routes(rs, index) == LinkGetLoop(rs, index, 1, <<>>)

----------------------------------------------------------------------------
(* The project the linker scripts are run on, and their main() *)

MaxRoutes == 2

StringArg(text) == [kind |-> "string", text |-> text]
ArrayArg(controller, action) ==
    [kind |-> "array", controller |-> controller, action |-> action]
ClosureArg == [kind |-> "closure"]

RouteCall(name, arguments) ==
    [scope |-> "Route", name |-> name, arguments |-> arguments]

\* Route::get('/users', [UserController::class, 'index']) and the like
RouteDeclarations ==
    {RouteCall("get", <<StringArg("'/users'"),
                        ArrayArg(Some("UserController"), Some("index"))>>),
     RouteCall("get", <<StringArg("'/users/{id}'"),
                        ArrayArg(Some("UserController"), Some("show"))>>),
     RouteCall("post", <<StringArg("'/users'"),
                         ArrayArg(Some("UserController"), Some("store"))>>),
     RouteCall("delete", <<StringArg("'/users/{id}'"),
                           ArrayArg(Some("UserController"), Some("destroy"))>>),
     RouteCall("get", <<StringArg("'/health'"), ClosureArg>>),
     RouteCall("get", <<StringArg("'/reports'"),
                        ArrayArg(Some("ReportController"), Some("index"))>>)}

RouteLists == UNION {[1..n -> RouteDeclarations] : n \in 0..MaxRoutes}

RoutesFile(decls) ==
    [file |-> "routes/api.php", namespace |-> "", classes |-> <<>>,
     route_calls |-> [k \in 1..Len(decls) |->
        [scope |-> decls[k].scope, name |-> decls[k].name, line |-> k + 2,
         arguments |-> decls[k].arguments]]]

ControllerFile ==
    [file |-> "app/Http/Controllers/UserController.php",
     namespace |-> "App\\Http\\Controllers",
     classes |-> <<Class("UserController",
        <<Method("index", <<"IndexUsersRequest">>,
                 <<"return UserResource::collection($users);">>, None),
          Method("show", <<"int">>,
                 <<"return new UserResource($user);">>, None),
          Method("store", <<"Request">>,
                 <<"return response()->json($user, 201);">>, None)>>)>>,
     route_calls |-> <<>>]

RequestFile(elems) ==
    [file |-> "app/Http/Requests/IndexUsersRequest.php",
     namespace |-> "App\\Http\\Requests",
     classes |-> <<Class("IndexUsersRequest",
        <<Method("rules", <<>>, <<"return [...];">>, Some(elems))>>)>>,
     route_calls |-> <<>>]

RulesArrays ==
    {<<"'status' => 'required|in:active,archived'",
       "'per_page' => 'integer|max:100'">>,
     <<"'per_page' => 'integer|max:' . $limit">>}

ResourceFile(array) ==
    [file |-> "app/Http/Resources/UserResource.php",
     namespace |-> "App\\Http\\Resources",
     classes |-> <<Class("UserResource",
        <<Method("toArray", <<"Request">>, <<"return [...];">>, array)>>)>>,
     route_calls |-> <<>>]

ResourceArrays ==
    {Some(<<"'id' => $this->id", "'name' => $this->name",
            "'deleted_at' => $this->deleted_at">>),
     None}

\* a second controller whose name ends with the first one's; its file comes
\* earlier in the scan
AdminControllerFile ==
    [file |-> "app/Http/Controllers/Admin/AdminUserController.php",
     namespace |-> "App\\Http\\Controllers\\Admin",
     classes |-> <<Class("AdminUserController",
        <<Method("index", <<>>,
                 <<"return response()->json($users);">>, None)>>)>>,
     route_calls |-> <<>>]

AdminFiles == {<<>>, <<AdminControllerFile>>}

Projects ==
    {<<RoutesFile(decls)>> \o admin
        \o <<ControllerFile, RequestFile(elems), ResourceFile(array)>> :
        decls \in RouteLists, elems \in RulesArrays, array \in ResourceArrays,
        admin \in AdminFiles}

BuildClassIndex ==
    /\ link_pc = "load"
    /\ class_index' = build_class_index(files)
    /\ link_pc' = "indexed"
    /\ UNCHANGED <<linker, files, routes, linked, rule_vars, merge_vars,
                 call_vars,
                 work_vars>>

\* linker_full.main
ExtractRoutes ==
    /\ link_pc = "indexed"
    /\ linker = "linker_full"
    /\ routes' = extract_routes(files)
    /\ link_pc' = "extracted"
    /\ UNCHANGED <<linker, files, class_index, linked, rule_vars, merge_vars,
                 call_vars,
                 work_vars>>

\* linker_get.main
FindRoutes ==
    /\ link_pc = "indexed"
    /\ linker = "linker_get"
    /\ routes' = find_routes(files)
    /\ link_pc' = "extracted"
    /\ UNCHANGED <<linker, files, class_index, linked, rule_vars, merge_vars,
                 call_vars,
                 work_vars>>

\* linker_full.main; an exception ends the script with nothing written
LinkRoutesToSchemas ==
    /\ link_pc = "extracted"
    /\ linker = "linker_full"
    /\ LET r == link_routes_to_schemas(routes, class_index) IN
       IF r.raised
       THEN link_pc' = "raised" /\ UNCHANGED linked
       ELSE link_pc' = "linked" /\ linked' = r.value
    /\ UNCHANGED <<linker, files, class_index, routes, rule_vars, merge_vars,
                 call_vars,
                 work_vars>>

\* a linker that also stores each resolved class under the route's reference
LinkGetRoutesAliasing ==
    /\ link_pc = "extracted"
    /\ linker = "linker_get"
    /\ linked' = link_get_routes(routes, class_index)
    /\ class_index' = class_index \o
           [k \in 1..Len(linked') |->
               [key |-> linked'[k].controller,
                value |-> FirstClassContaining(class_index,
                                               linked'[k].controller)[1]]]
    /\ link_pc' = "linked"
    /\ UNCHANGED <<linker, files, routes, rule_vars, merge_vars, call_vars,
                 work_vars>>

\* linker_get.main
LinkGetRoutes ==
    /\ link_pc = "extracted"
    /\ linker = "linker_get"
    /\ linked' = link_get_routes(routes, class_index)
    /\ link_pc' = "linked"
    /\ UNCHANGED <<linker, files, class_index, routes, rule_vars, merge_vars,
                 call_vars,
                 work_vars>>

InitLink ==
    /\ linker \in {"linker_full", "linker_get"}
    /\ files \in Projects
    /\ class_index = <<>>
    /\ routes = <<>>
    /\ linked = <<>>
    /\ link_pc = "load"
    /\ RulesIdle
    /\ MergeIdle
    /\ CallIdle
    /\ WorkIdle

NextLink ==
    \/ BuildClassIndex
    \/ ExtractRoutes
    \/ FindRoutes
    \/ LinkRoutesToSchemas
    \/ LinkGetRoutes

SpecLink == InitLink /\ [][NextLink]_vars

----------------------------------------------------------------------------
(* parse_routes_v2.py: DetailedASTParser.extract_enum_cases *)

\* a tree-sitter node: its type, its text, its row, its children
Node(type, text, row, children) ==
    [type |-> type, text |-> text, row |-> row, children |-> children]

Leaf(type, text) == Node(type, text, 0, <<>>)

\* find_child_by_type: the first child of the type, or None
find_child_by_type(node, node_type) ==
    LET ks == {k \in 1..Len(node.children) : node.children[k].type = node_type} IN
    IF ks = {} THEN None ELSE Some(node.children[MinOf(ks)])

\* get_node_text
get_node_text(node) == node.text

\* value = None; for c in child.children: if c.type in ['string', 'integer']:
\* value = text.strip('"\''): the last such child decides
EnumCaseValue(case_node) ==
    LET ks == {k \in 1..Len(case_node.children) :
                  case_node.children[k].type \in {"string", "integer"}}
        last == CHOOSE k \in ks : \A j \in ks : j <= k
    IN IF ks = {} THEN None
       ELSE Some(StripQuotes(get_node_text(case_node.children[last])))

RECURSIVE EnumCasesLoop(_, _, _)
EnumCasesLoop(children, k, cases) ==
    IF k > Len(children) THEN cases
    ELSE LET child == children[k]
             name_node == find_child_by_type(child, "name")
         IN EnumCasesLoop(children, k + 1,
              IF child.type = "enum_case" /\ name_node # None
              THEN Append(cases, [name |-> get_node_text(name_node[1]),
                                  value |-> EnumCaseValue(child),
                                  line |-> child.row + 1])
              ELSE cases)

extract_enum_cases(enum_node) ==
    LET declaration_list == find_child_by_type(enum_node, "declaration_list") IN
    IF declaration_list = None THEN <<>>
    ELSE EnumCasesLoop(declaration_list[1].children, 1, <<>>)

MaxCases == 3

\* members of an enum body: case A = 'a'; case B = "b"; case C = 3; case D;
\* and a method
EnumMembers ==
    {[kind |-> "case", name |-> "A", literal |-> Some(Leaf("string", "'a'"))],
     [kind |-> "case", name |-> "B", literal |-> Some(Leaf("encapsed_string", "\"b\""))],
     [kind |-> "case", name |-> "C", literal |-> Some(Leaf("integer", "3"))],
     [kind |-> "case", name |-> "D", literal |-> None],
     [kind |-> "method", name |-> "label", literal |-> None]}

EnumBodies == UNION {[1..n -> EnumMembers] : n \in 0..MaxCases}

\* the node of one member, on the row after the enum's opening line
MemberNode(m, row) ==
    IF m.kind = "case"
    THEN Node("enum_case", "", row,
              <<Leaf("case", "case"), Leaf("name", m.name)>>
              \o (IF m.literal = None THEN <<>>
                  ELSE <<Leaf("=", "="), m.literal[1]>>)
              \o <<Leaf(";", ";")>>)
    ELSE Node("method_declaration", "", row,
              <<Leaf("visibility_modifier", "public"), Leaf("function", "function"),
                Leaf("name", m.name)>>)

\* enum Status: string { ... }
EnumNode(members) ==
    Node("enum_declaration", "", 0,
         <<Leaf("enum", "enum"), Leaf("name", "Status"),
           Node("declaration_list", "", 0,
                <<Leaf("{", "{")>>
                \o [k \in 1..Len(members) |-> MemberNode(members[k], k)]
                \o <<Leaf("}", "}")>>)>>)

\* an enum declaration the parser gave no body
EnumNodeNoBody == Node("enum_declaration", "", 0,
                       <<Leaf("enum", "enum"), Leaf("name", "Status")>>)

ExtractEnumCases(members) ==
    /\ fn_call = [fn |-> "none"]
    /\ fn_call' = [fn |-> "extract_enum_cases", members |-> members,
                   enum_node |-> EnumNode(members)]
    /\ fn_result' = Some(extract_enum_cases(EnumNode(members)))
    /\ UNCHANGED <<rule_vars, merge_vars, link_vars, work_vars>>

ExtractEnumCasesNoBody ==
    /\ fn_call = [fn |-> "none"]
    /\ fn_call' = [fn |-> "extract_enum_cases", members |-> <<>>,
                   enum_node |-> EnumNodeNoBody]
    /\ fn_result' = Some(extract_enum_cases(EnumNodeNoBody))
    /\ UNCHANGED <<rule_vars, merge_vars, link_vars, work_vars>>

InitEnum == CallIdle /\ RulesIdle /\ MergeIdle /\ LinkIdle /\ WorkIdle

NextEnum ==
    \/ \E members \in EnumBodies : ExtractEnumCases(members)
    \/ ExtractEnumCasesNoBody

SpecEnum == InitEnum /\ [][NextEnum]_vars

----------------------------------------------------------------------------
(* laravel_api_extractor.py: parse_response_array, infer_response_type *)

\* ResponseField(field_name=...)
ResponseField(field_name) ==
    [field_name |-> field_name, field_type |-> "mixed", nullable |-> FALSE,
     nested_fields |-> <<>>, is_array |-> FALSE, description |-> None]

infer_response_type(node, text) ==
    IF node.type = "integer" THEN "integer"
    ELSE IF node.type = "float" THEN "float"
    ELSE IF node.type \in {"string", "encapsed_string"} THEN "string"
    ELSE IF node.type = "boolean" THEN "boolean"
    ELSE IF node.type = "array_creation_expression" THEN "array"
    ELSE IF Contains(text, "Resource::collection") THEN "collection"
    ELSE IF Contains(text, "Resource") THEN "resource"
    ELSE "mixed"

\* an array node holds its array_element nodes; each has a key and a value
\* field, either of which can be missing
RECURSIVE ParseResponseFrom(_, _, _)
ParseResponseFrom(elements, k, fields) ==
    IF k > Len(elements) THEN fields
    ELSE LET key_node == elements[k].key
             value_node == elements[k].value
         IN
    IF key_node = None \/ value_node = None
    THEN ParseResponseFrom(elements, k + 1, fields)
    ELSE LET field_name == StripQuotes(key_node[1].text)
             typed == [ResponseField(field_name) EXCEPT !.field_type =
                          infer_response_type(value_node[1], value_node[1].text)]
             field == IF value_node[1].type = "array_creation_expression"
                      THEN [typed EXCEPT !.is_array = TRUE,
                              !.nested_fields =
                                 ParseResponseFrom(value_node[1].elements, 1, <<>>)]
                      ELSE typed
         IN ParseResponseFrom(elements, k + 1, Update(fields, field_name :> field))

parse_response_array(array_node) == ParseResponseFrom(array_node.elements, 1, <<>>)

MaxResponseFields == 2

ValueNode(type, text) == [type |-> type, text |-> text]

ResponseArrayNode(text, elements) ==
    [type |-> "array_creation_expression", text |-> text, elements |-> elements]

KeyedElement(key, value_node) ==
    [key |-> Some(ValueNode("string", "'" \o key \o "'")), value |-> Some(value_node)]

\* the values a toArray() array gives its keys
ResponseValues ==
    {ValueNode("integer", "1"),
     ValueNode("member_access_expression", "$this->name"),
     ValueNode("scoped_call_expression", "TagResource::collection($this->tags)"),
     ValueNode("object_creation_expression", "new UserResource($this->owner)"),
     ResponseArrayNode("[]", <<>>),
     ResponseArrayNode("['a', 'b']",
        <<[key |-> None, value |-> Some(ValueNode("string", "'a'"))],
          [key |-> None, value |-> Some(ValueNode("string", "'b'"))]>>),
     ResponseArrayNode("['street' => $this->street]",
        <<KeyedElement("street",
                       ValueNode("member_access_expression", "$this->street"))>>)}

ResponseKeys == {"id", "tags", "address"}

ResponseElements ==
    {KeyedElement(key, value_node) : key \in ResponseKeys, value_node \in ResponseValues}

ResponseArrays ==
    {ResponseArrayNode("[...]", elements) :
        elements \in UNION {[1..n -> ResponseElements] : n \in 0..MaxResponseFields}}

ParseResponseArray(array_node) ==
    /\ fn_call = [fn |-> "none"]
    /\ fn_call' = [fn |-> "parse_response_array", array_node |-> array_node]
    /\ fn_result' = Some(parse_response_array(array_node))
    /\ UNCHANGED <<rule_vars, merge_vars, link_vars, work_vars>>

InitResponse == CallIdle /\ RulesIdle /\ MergeIdle /\ LinkIdle /\ WorkIdle

NextResponse == \E array_node \in ResponseArrays : ParseResponseArray(array_node)

SpecResponse == InitResponse /\ [][NextResponse]_vars

----------------------------------------------------------------------------
(* Path parameters: laravel_api_extractor.extract_route_parameters and
   linker_query_correct.extract_path_parameters *)

\* [a-zA-Z_] and [a-zA-Z0-9_]; \w on the ASCII paths of the catalogue
IdentStart == LowerChars \o UpperChars \o "_"
WordChars == IdentStart \o "0123456789"

CharAt(s, i) == IF i >= 1 /\ i <= Len(s) THEN Slice(s, i, i) ELSE ""

InChars(c, chars) == Len(c) = 1 /\ Contains(chars, c)

\* the position after the longest run of characters of chars that starts at i
RECURSIVE SpanWhile(_, _, _)
SpanWhile(s, i, chars) ==
    IF InChars(CharAt(s, i), chars) THEN SpanWhile(s, i + 1, chars) ELSE i

RouteParameter(name, optional) ==
    [name |-> name, optional |-> optional, type |-> None]

\* re.match of \{([a-zA-Z_][a-zA-Z0-9_]*)\??} at position i: the position of
\* the closing brace, or 0 when the pattern does not match there
RouteParamMatch(s, i) ==
    IF CharAt(s, i) = "{" /\ InChars(CharAt(s, i + 1), IdentStart)
    THEN LET j == SpanWhile(s, i + 2, WordChars)
             k == IF CharAt(s, j) = "?" THEN j + 1 ELSE j
         IN IF CharAt(s, k) = "}" THEN k ELSE 0
    ELSE 0

\* re.finditer: leftmost matches, each search resuming after the last match
RECURSIVE RouteParamsFrom(_, _, _)
RouteParamsFrom(route_path, i, parameters) ==
    IF i > Len(route_path) THEN parameters
    ELSE LET k == RouteParamMatch(route_path, i) IN
         IF k = 0 THEN RouteParamsFrom(route_path, i + 1, parameters)
         ELSE LET group0 == Slice(route_path, i, k)
                  optional == EndsWith(group0, "?}")
                  param_name ==
                      Slice(route_path, i + 1, IF optional THEN k - 2 ELSE k - 1)
              IN RouteParamsFrom(route_path, k + 1,
                     Append(parameters, RouteParameter(param_name, optional)))

extract_route_parameters(route_path) == RouteParamsFrom(route_path, 1, <<>>)

\* re.match of \{(\w+)\} at position i
PathParamMatch(s, i) ==
    IF CharAt(s, i) = "{" /\ InChars(CharAt(s, i + 1), WordChars)
    THEN LET j == SpanWhile(s, i + 2, WordChars)
         IN IF CharAt(s, j) = "}" THEN j ELSE 0
    ELSE 0

PathParam(param_name) ==
    [name |-> param_name, in |-> "path", required |-> TRUE,
     schema |-> [type |-> "string"]]

RECURSIVE PathParamsFrom(_, _, _)
PathParamsFrom(path, i, params) ==
    IF i > Len(path) THEN params
    ELSE LET k == PathParamMatch(path, i) IN
         IF k = 0 THEN PathParamsFrom(path, i + 1, params)
         ELSE PathParamsFrom(path, k + 1,
                  Append(params, PathParam(Slice(path, i + 1, k - 1))))

extract_path_parameters(path) == PathParamsFrom(path, 1, <<>>)

MaxSegments == 3

\* the segments route paths are written with
PathSegments ==
    {"users", "{id}", "{post?}", "{user_id}", "{_x9?}", "{1x}", "{}", "{?}",
     "{a-b}", "{id"}

RoutePath(segments) ==
    IF Len(segments) = 0 THEN "/" ELSE "/" \o JoinWith(segments, "/")

RoutePaths ==
    {RoutePath(segments) :
        segments \in UNION {[1..n -> PathSegments] : n \in 0..MaxSegments}}

ExtractRouteParameters(route_path) ==
    /\ fn_call = [fn |-> "none"]
    /\ fn_call' = [fn |-> "extract_route_parameters", path |-> route_path]
    /\ fn_result' = Some(extract_route_parameters(route_path))
    /\ UNCHANGED <<rule_vars, merge_vars, link_vars, work_vars>>

ExtractPathParameters(path) ==
    /\ fn_call = [fn |-> "none"]
    /\ fn_call' = [fn |-> "extract_path_parameters", path |-> path]
    /\ fn_result' = Some(extract_path_parameters(path))
    /\ UNCHANGED <<rule_vars, merge_vars, link_vars, work_vars>>

InitPath == CallIdle /\ RulesIdle /\ MergeIdle /\ LinkIdle /\ WorkIdle

NextPath ==
    \E path \in RoutePaths :
        \/ ExtractRouteParameters(path)
        \/ ExtractPathParameters(path)

SpecPath == InitPath /\ [][NextPath]_vars

----------------------------------------------------------------------------
(* build_class_index run on its own, over a sequence of parsed files *)

MaxFiles == 3

\* a class_declaration, enum_declaration or trait_declaration of a file
Declaration(type, name, methods) ==
    [type |-> type, name |-> name, methods |-> methods]

\* find_classes: the class_declaration nodes of the file, in source order
find_classes(declarations) ==
    SelectSeq(declarations, LAMBDA d : d.type = "class_declaration")

SourceFile(file, namespace, declarations) ==
    [file |-> file, namespace |-> namespace, declarations |-> declarations,
     classes |-> find_classes(declarations), route_calls |-> <<>>]

\* two files declare App\Models\User, two declare Helper without a
\* namespace, one declares an enum and one a trait beside a class
CorpusFiles ==
    {SourceFile("app/Models/User.php", "App\\Models",
        <<Declaration("class_declaration", "User",
            <<Method("posts", <<>>, <<>>, None)>>)>>),
     SourceFile("app/Legacy/User.php", "App\\Models",
        <<Declaration("class_declaration", "User", <<>>)>>),
     SourceFile("helpers.php", "",
        <<Declaration("class_declaration", "Helper", <<>>)>>),
     SourceFile("lib/helpers.php", "",
        <<Declaration("class_declaration", "Helper",
            <<Method("slug", <<"string">>, <<>>, None)>>)>>),
     SourceFile("app/Enums/Status.php", "App\\Enums",
        <<Declaration("enum_declaration", "Status", <<>>)>>),
     SourceFile("app/Http/Requests/StoreUserRequest.php", "App\\Http\\Requests",
        <<Declaration("trait_declaration", "HasUserRules",
            <<Method("userRules", <<>>, <<>>, None)>>),
          Declaration("class_declaration", "StoreUserRequest",
            <<Method("rules", <<>>, <<>>, None)>>)>>)}

Corpora == UNION {[1..n -> CorpusFiles] : n \in 0..MaxFiles}

BuildClassIndexOf(fs) ==
    /\ fn_call = [fn |-> "none"]
    /\ fn_call' = [fn |-> "build_class_index", files |-> fs]
    /\ fn_result' = Some(build_class_index(fs))
    /\ UNCHANGED <<rule_vars, merge_vars, link_vars, work_vars>>

InitIndex == CallIdle /\ RulesIdle /\ MergeIdle /\ LinkIdle /\ WorkIdle

NextIndex == \E fs \in Corpora : BuildClassIndexOf(fs)

SpecIndex == InitIndex /\ [][NextIndex]_vars

----------------------------------------------------------------------------
(* The linkers run on the same files scanned in another order *)

\* the file sequence with the files after the routes file in another order
Reorderings(fs) ==
    {[k \in 1..Len(fs) |-> IF k = 1 THEN fs[1] ELSE fs[p[k]]] :
        p \in Permutations(2..Len(fs))}

\* rglob gives the files of a project in directory order, which differs
\* from one file system to another
ScannedProjects ==
    UNION {Reorderings(<<RoutesFile(decls)>> \o admin
               \o <<ControllerFile,
                    RequestFile(<<"'status' => 'required|in:active,archived'",
                                  "'per_page' => 'integer|max:100'">>),
                    ResourceFile(array)>>) :
        decls \in RouteLists, array \in ResourceArrays \ {None},
        admin \in AdminFiles}

InitScan ==
    /\ linker \in {"linker_full", "linker_get"}
    /\ files \in ScannedProjects
    /\ class_index = <<>>
    /\ routes = <<>>
    /\ linked = <<>>
    /\ link_pc = "load"
    /\ RulesIdle
    /\ MergeIdle
    /\ CallIdle
    /\ WorkIdle

SpecScan == InitScan /\ [][NextLink]_vars

----------------------------------------------------------------------------
(* Response extraction run on its own: linker_full.extract_response_from_method
   and linker_get.extract_response_schema on a handler's return statements *)

MaxReturns == 3

ResourceClassFile(name, methods) ==
    [file |-> "app/Http/Resources/" \o name \o ".php",
     namespace |-> "App\\Http\\Resources",
     classes |-> <<Class(name, methods)>>, route_calls |-> <<>>]

\* PostResource::toArray returns parent::toArray($request), no array literal;
\* EmptyResource has neither toArray nor transform
ResourceFiles ==
    <<ResourceClassFile("PostResource",
        <<Method("toArray", <<"Request">>,
                 <<"return parent::toArray($request);">>, None)>>),
      ResourceClassFile("UserResource",
        <<Method("toArray", <<"Request">>, <<"return [...];">>,
                 Some(<<"'id' => $this->id", "'name' => $this->name">>))>>),
      ResourceClassFile("TagTransformer",
        <<Method("transform", <<"Tag">>, <<"return [...];">>,
                 Some(<<"'label' => $this->label">>))>>),
      ResourceClassFile("EmptyResource", <<>>)>>

ResourceIndex == build_class_index(ResourceFiles)

ReturnTexts ==
    {"return new PostResource($post);",
     "return new UserResource($user);",
     "return TagTransformer::collection($tags);",
     "return new EmptyResource($thing);",
     "return response()->json(['ok' => true]);"}

Handlers ==
    {Method("show", <<"int">>, returns, None) :
        returns \in UNION {[1..n -> ReturnTexts] : n \in 0..MaxReturns}}

ExtractResponseFromMethod(method_node) ==
    /\ fn_call = [fn |-> "none"]
    /\ fn_call' = [fn |-> "extract_response_from_method",
                   method_node |-> method_node]
    /\ fn_result' = Some(extract_response_from_method(method_node, ResourceIndex))
    /\ UNCHANGED <<rule_vars, merge_vars, link_vars, work_vars>>

ExtractResponseSchema(method_node) ==
    /\ fn_call = [fn |-> "none"]
    /\ fn_call' = [fn |-> "extract_response_schema", method_node |-> method_node]
    /\ fn_result' = Some(extract_response_schema(method_node, ResourceIndex))
    /\ UNCHANGED <<rule_vars, merge_vars, link_vars, work_vars>>

InitReturns == CallIdle /\ RulesIdle /\ MergeIdle /\ LinkIdle /\ WorkIdle

NextReturns ==
    \E method_node \in Handlers :
        \/ ExtractResponseFromMethod(method_node)
        \/ ExtractResponseSchema(method_node)

SpecReturns == InitReturns /\ [][NextReturns]_vars

----------------------------------------------------------------------------
(* The field-type heuristics run on their own: linker_get.infer_type_from_value,
   linker_query_correct.infer_type and the field schema inside
   linker_full.extract_array_schema_from_method *)

\* linker_query_correct
infer_type(field_name, value_text) ==
    IF ContainsAny(field_name, {"_id", "id", "count", "number", "amount", "quantity"})
    THEN [type |-> "integer"]
    ELSE IF ContainsAny(field_name, {"is_", "has_", "can_", "should_"})
    THEN [type |-> "boolean"]
    ELSE IF ContainsAny(field_name, {"_at", "date", "time"})
    THEN [type |-> "string", format |-> "date-time"]
    ELSE IF Contains(value_text, "[") \/ Contains(Lower(value_text), "array")
    THEN [type |-> "array", items |-> [type |-> "object"]]
    ELSE [type |-> "string"]

\* the keys and the values of the arrays toArray() returns
SchemaFieldNames ==
    {"id", "user_id", "posts_count", "is_active", "has_posts", "is_valid",
     "is_paid", "created_at", "published_at", "birth_date", "name",
     "has_count", "validated_at"}

SchemaFieldValues ==
    {"$this->value", "$user->value", "[$this->a, $this->b]",
     "$this->value ?? null"}

InferTypeFromValue(field_name, field_value) ==
    /\ fn_call = [fn |-> "none"]
    /\ fn_call' = [fn |-> "infer_type_from_value", field_name |-> field_name,
                   field_value |-> field_value]
    /\ fn_result' = Some(infer_type_from_value(field_name, field_value))
    /\ UNCHANGED <<rule_vars, merge_vars, link_vars, work_vars>>

InferType(field_name, value_text) ==
    /\ fn_call = [fn |-> "none"]
    /\ fn_call' = [fn |-> "infer_type", field_name |-> field_name,
                   field_value |-> value_text]
    /\ fn_result' = Some(infer_type(field_name, value_text))
    /\ UNCHANGED <<rule_vars, merge_vars, link_vars, work_vars>>

\* extract_array_schema_from_method on the one-element array
ExtractArrayFieldSchema(field_name, field_value) ==
    /\ fn_call = [fn |-> "none"]
    /\ fn_call' = [fn |-> "extract_array_schema_from_method",
                   field_name |-> field_name, field_value |-> field_value]
    /\ fn_result' =
           Some(extract_array_schema_from_method(
                    Method("toArray", <<"Request">>, <<"return [...];">>,
                           Some(<<"'" \o field_name \o "' => " \o field_value>>))
                ).properties[field_name])
    /\ UNCHANGED <<rule_vars, merge_vars, link_vars, work_vars>>

InitInfer == CallIdle /\ RulesIdle /\ MergeIdle /\ LinkIdle /\ WorkIdle

NextInfer ==
    \E field_name \in SchemaFieldNames, field_value \in SchemaFieldValues :
        \/ InferTypeFromValue(field_name, field_value)
        \/ InferType(field_name, field_value)
        \/ ExtractArrayFieldSchema(field_name, field_value)

SpecInfer == InitInfer /\ [][NextInfer]_vars

----------------------------------------------------------------------------
(* Tree search over the dumped AST: dump_ast_v2.extract_specific_nodes and
   the search of linker_get.find_method_in_class *)

\* a node of the JSON tree: node_to_dict's dict, with the field name the
\* parent gives it ("" for none)
DictNode(type, field, text, children) ==
    [type |-> type, field |-> field, text |-> text, children |-> children]

\* a search that reports a node after the nodes below it
RECURSIVE PostOrderFromChildren(_, _, _)
RECURSIVE ExtractPostOrder(_, _)
ExtractPostOrder(root_dict, node_types) ==
    PostOrderFromChildren(root_dict.children, 1, node_types)
        \o (IF root_dict.type \in node_types THEN <<root_dict>> ELSE <<>>)

PostOrderFromChildren(children, k, node_types) ==
    IF k > Len(children) THEN <<>>
    ELSE ExtractPostOrder(children[k], node_types)
             \o PostOrderFromChildren(children, k + 1, node_types)

\* the dicts node_to_dict makes have 'children' and no 'fields' key, and the
\* root is a dict, so only the loop over the children runs

\* results.extend over the children, in order
RECURSIVE ExtractFromChildren(_, _, _)
RECURSIVE extract_specific_nodes(_, _)
extract_specific_nodes(root_dict, node_types) ==
    (IF root_dict.type \in node_types THEN <<root_dict>> ELSE <<>>)
        \o ExtractFromChildren(root_dict.children, 1, node_types)

ExtractFromChildren(children, k, node_types) ==
    IF k > Len(children) THEN <<>>
    ELSE extract_specific_nodes(children[k], node_types)
             \o ExtractFromChildren(children, k + 1, node_types)

\* a method_declaration with a child in the field 'name' of that text
IsMethodNamed(node, method_name) ==
    /\ node.type = "method_declaration"
    /\ \E k \in 1..Len(node.children) :
           node.children[k].field = "name" /\ node.children[k].text = method_name

\* find_method_in_class.search: the node itself, else the first child
\* subtree that has a result
RECURSIVE SearchChildren(_, _, _)
RECURSIVE search(_, _)
search(node, method_name) ==
    IF IsMethodNamed(node, method_name) THEN Some(node)
    ELSE SearchChildren(node.children, 1, method_name)

SearchChildren(children, k, method_name) ==
    IF k > Len(children) THEN None
    ELSE LET result == search(children[k], method_name) IN
         IF result # None THEN result
         ELSE SearchChildren(children, k + 1, method_name)

MaxChildren == 2

NameNode(text) == DictNode("name", "name", text, <<>>)

MethodNode(name, body) ==
    DictNode("method_declaration", "", "function " \o name, <<NameNode(name)>> \o body)

\* the members of a class body: methods, a comment, and methods that hold
\* another method (of an anonymous class) in their body
PlainMembers ==
    {MethodNode(name, <<>>) : name \in {"index", "show"}}
        \cup {DictNode("comment", "", "// note", <<>>)}

ClassMembers ==
    PlainMembers
        \cup {MethodNode(name, <<inner>>) :
                 name \in {"index", "show"}, inner \in PlainMembers}

ClassTrees ==
    {DictNode("class_declaration", "", "class C",
        <<NameNode("C"), DictNode("declaration_list", "body", "{}", members)>>) :
        members \in UNION {[1..n -> ClassMembers] : n \in 0..MaxChildren}}

SearchedTypes ==
    {{"method_declaration"}, {"name"}, {"enum_declaration"},
     {"method_declaration", "comment"}}

SearchedNames == {"index", "show", "store"}

ExtractSpecificNodes(root_dict, node_types) ==
    /\ fn_call = [fn |-> "none"]
    /\ fn_call' = [fn |-> "extract_specific_nodes", root |-> root_dict,
                   node_types |-> node_types]
    /\ fn_result' = Some(extract_specific_nodes(root_dict, node_types))
    /\ UNCHANGED <<rule_vars, merge_vars, link_vars, work_vars>>

FindMethodInClass(class_node, method_name) ==
    /\ fn_call = [fn |-> "none"]
    /\ fn_call' = [fn |-> "find_method_in_class", root |-> class_node,
                   method_name |-> method_name]
    /\ fn_result' = Some(search(class_node, method_name))
    /\ UNCHANGED <<rule_vars, merge_vars, link_vars, work_vars>>

InitSearch == CallIdle /\ RulesIdle /\ MergeIdle /\ LinkIdle /\ WorkIdle

NextSearch ==
    \E root \in ClassTrees :
        \/ \E node_types \in SearchedTypes : ExtractSpecificNodes(root, node_types)
        \/ \E method_name \in SearchedNames : FindMethodInClass(root, method_name)

SpecSearch == InitSearch /\ [][NextSearch]_vars

----------------------------------------------------------------------------
(* parse_routes_v2.py: DetailedASTParser.process_routes, parse_and_save_file,
   analyze_structures, save_api_index *)

\* str.replace of one character, from position k on
RECURSIVE ReplaceFrom(_, _, _, _)
ReplaceFrom(s, k, a, b) ==
    IF k > Len(s) THEN ""
    ELSE (IF Slice(s, k, k) = a THEN b ELSE Slice(s, k, k))
             \o ReplaceFrom(s, k + 1, a, b)

ReplaceChar(s, a, b) == ReplaceFrom(s, 1, a, b)

\* get_ast_file_path: the name of the AST file of a PHP file in the AST dir
get_ast_file_path(relative) ==
    CHOOSE ast_file \in {ReplaceChar(safe_name, "\\", "_") \o ".json" :
                            safe_name \in {ReplaceChar(relative, "/", "_")}} : TRUE

ast_exists(dir, relative) == get_ast_file_path(relative) \in DOMAIN dir

\* str.split on a one-character separator: the parts of s from position k
\* on, the first of them begun at position b
RECURSIVE SplitFrom(_, _, _, _)
SplitFrom(s, sep, b, k) ==
    IF k > Len(s) THEN <<Slice(s, b, Len(s))>>
    ELSE IF Slice(s, k, k) = sep
    THEN <<Slice(s, b, k - 1)>> \o SplitFrom(s, sep, k + 1, k + 1)
    ELSE SplitFrom(s, sep, b, k + 1)

\* parts[0] of a namespace path as a directory of the project
RootDirectory(part) ==
    IF part = "App" THEN "app"
    ELSE IF part = "Database" THEN "database"
    ELSE IF part = "Tests" THEN "tests"
    ELSE part

\* namespace_to_file: the PHP file a namespace stands for, None when the
\* project has no such file; each local of the method is computed once
namespace_to_file(proj, namespace) ==
    CHOOSE full_path \in {None} \cup {Some(f) : f \in DOMAIN proj.files} :
        \E stripped \in {LStripChars(namespace, {"\\"})} :
        \E replaced \in {ReplaceChar(stripped, "\\", "/")} :
        \E parts \in {SplitFrom(replaced, "/", 1, 1)} :
        \E joined \in {JoinWith(<<RootDirectory(parts[1])>> \o Tail(parts), "/")} :
        \E path \in {IF EndsWith(joined, ".php") THEN joined ELSE joined \o ".php"} :
            full_path = IF path \in DOMAIN proj.files THEN Some(path) ELSE None

\* one turn of the loop over the dependencies; dep_file is computed once
Enqueued(queue, proj, namespace, processed) ==
    CHOOSE appended \in {IF dep_file # None /\ dep_file[1] \notin processed
                         THEN Append(queue, dep_file[1]) ELSE queue :
                             dep_file \in {namespace_to_file(proj, namespace)}} : TRUE

\* for namespace in dependencies: append the file when it exists and is not
\* in processed_files
RECURSIVE EnqueueDependencies(_, _, _, _, _)
EnqueueDependencies(queue, proj, dependencies, k, processed) ==
    IF k > Len(dependencies) THEN queue
    ELSE EnqueueDependencies(Enqueued(queue, proj, dependencies[k], processed),
                             proj, dependencies, k + 1, processed)

NoApiIndex ==
    [controllers |-> <<>>, requests |-> <<>>, resources |-> <<>>,
     models |-> <<>>, enums |-> <<>>, traits |-> <<>>, interfaces |-> <<>>]

\* analyze_class_structure: the category a class is filed under, None for a
\* class that is left out
ClassCategory(class_name, relative_path, parent_class) ==
    IF Contains(class_name, "Controller") \/ Contains(relative_path, "/Controllers/")
    THEN Some("controllers")
    ELSE IF Contains(class_name, "Request") \/ Contains(relative_path, "/Requests/")
    THEN Some("requests")
    ELSE IF Contains(class_name, "Resource") \/ Contains(relative_path, "/Resources/")
    THEN Some("resources")
    ELSE IF parent_class = Some("Model") \/ Contains(relative_path, "/Models/")
    THEN Some("models")
    ELSE None

\* what traverse does at one declaration node; an entry keeps the declaring
\* file and, for a class, its parent
AnalyzeDeclaration(index, d, relative_path) ==
    LET category ==
            IF d.type = "class_declaration"
            THEN ClassCategory(d.name, relative_path, d.parent)
            ELSE IF d.type = "enum_declaration" THEN Some("enums")
            ELSE IF d.type = "trait_declaration" THEN Some("traits")
            ELSE None
    IN IF d.name = "" \/ category = None THEN index
       ELSE [index EXCEPT ![category[1]] =
                Update(@, d.name :> [file |-> relative_path, parent |-> d.parent])]

\* analyze_structures: traverse over the declarations of the file in order
RECURSIVE AnalyzeFrom(_, _, _, _)
AnalyzeFrom(index, declarations, k, relative_path) ==
    IF k > Len(declarations) THEN index
    ELSE AnalyzeFrom(AnalyzeDeclaration(index, declarations[k], relative_path),
                     declarations, k + 1, relative_path)

analyze_structures(index, declarations, relative_path) ==
    AnalyzeFrom(index, declarations, 1, relative_path)

Count(counts, file) == IF file \in DOMAIN counts THEN counts[file] ELSE 0

Counted(counts, file) == Update(counts, file :> Count(counts, file) + 1)

TreeEntry(dependencies, relative) ==
    [dependencies |-> dependencies, ast_file |-> "AST/" \o get_ast_file_path(relative)]

\* process_routes up to the loop: a missing routes file ends it
StartRoutes ==
    /\ work_pc = "start"
    /\ IF project.routes_file \in DOMAIN project.files
       THEN /\ files_to_process' = Append(files_to_process, project.routes_file)
            /\ work_pc' = "loop"
       ELSE /\ work_pc' = "processed"
            /\ UNCHANGED files_to_process
    /\ UNCHANGED <<project, ast_dir, processed_files, dependency_tree, api_index,
                   saved_index, parsed, analysed, skipped,
                   rule_vars, merge_vars, link_vars, call_vars>>

Popping == work_pc = "loop" /\ files_to_process # <<>>

\* pop(0); parse_and_save_file returns at once for a processed file
PopProcessed ==
    /\ Popping
    /\ Head(files_to_process) \in processed_files
    /\ files_to_process' = Tail(files_to_process)
    /\ UNCHANGED <<project, ast_dir, work_pc, processed_files, dependency_tree,
                   api_index, saved_index, parsed, analysed, skipped,
                   rule_vars, merge_vars, link_vars, call_vars>>

\* a step that also analyses the file whose AST it finds
SkipCachedAnalysing ==
    /\ Popping
    /\ LET file_path == Head(files_to_process)
           dependencies == ast_dir[get_ast_file_path(file_path)]
       IN /\ file_path \notin processed_files
          /\ ast_exists(ast_dir, file_path)
          /\ processed_files' = processed_files \cup {file_path}
          /\ dependency_tree' =
                 Update(dependency_tree, file_path :> TreeEntry(dependencies, file_path))
          /\ files_to_process' =
                 EnqueueDependencies(Tail(files_to_process), project, dependencies,
                                     1, processed_files')
          /\ skipped' = skipped \cup {file_path}
          /\ api_index' = analyze_structures(api_index,
                              project.files[file_path].declarations, file_path)
    /\ UNCHANGED <<project, ast_dir, work_pc, saved_index, parsed,
                   analysed, rule_vars, merge_vars, link_vars, call_vars>>

\* pop(0); the [SKIP] branch: the AST file exists
SkipCached ==
    /\ Popping
    /\ LET file_path == Head(files_to_process)
           dependencies == ast_dir[get_ast_file_path(file_path)]
       IN /\ file_path \notin processed_files
          /\ ast_exists(ast_dir, file_path)
          /\ processed_files' = processed_files \cup {file_path}
          /\ dependency_tree' =
                 Update(dependency_tree, file_path :> TreeEntry(dependencies, file_path))
          /\ files_to_process' =
                 EnqueueDependencies(Tail(files_to_process), project, dependencies,
                                     1, processed_files')
          /\ skipped' = skipped \cup {file_path}
    /\ UNCHANGED <<project, ast_dir, work_pc, api_index, saved_index, parsed,
                   analysed, rule_vars, merge_vars, link_vars, call_vars>>

\* pop(0); the [PARSE] branch when nothing raises
ParseAndSaveFile ==
    /\ Popping
    /\ LET file_path == Head(files_to_process)
           dependencies == project.files[file_path].uses
       IN /\ file_path \notin processed_files
          /\ ~ast_exists(ast_dir, file_path)
          /\ project.files[file_path].fault = "none"
          /\ parsed' = Counted(parsed, file_path)
          /\ analysed' = Counted(analysed, file_path)
          /\ api_index' = analyze_structures(api_index,
                              project.files[file_path].declarations, file_path)
          /\ ast_dir' = Update(ast_dir, get_ast_file_path(file_path) :> dependencies)
          /\ dependency_tree' =
                 Update(dependency_tree, file_path :> TreeEntry(dependencies, file_path))
          /\ processed_files' = processed_files \cup {file_path}
          /\ files_to_process' =
                 EnqueueDependencies(Tail(files_to_process), project, dependencies,
                                     1, processed_files')
    /\ UNCHANGED <<project, work_pc, saved_index, skipped,
                   rule_vars, merge_vars, link_vars, call_vars>>

\* a step that puts the file whose parsing failed back on the queue
ParseFailsRetrying ==
    /\ Popping
    /\ LET file_path == Head(files_to_process) IN
       /\ file_path \notin processed_files
       /\ ~ast_exists(ast_dir, file_path)
       /\ project.files[file_path].fault # "none"
       /\ files_to_process' = Append(Tail(files_to_process), file_path)
    /\ UNCHANGED <<project, ast_dir, work_pc, processed_files, dependency_tree,
                   api_index, saved_index, parsed, analysed, skipped,
                   rule_vars, merge_vars, link_vars, call_vars>>

\* pop(0); the [PARSE] branch when the try block raises: reading the file
\* fails before the parse, or node_to_dict fails on a text that is not
\* UTF-8 after analyze_structures has run; the except clause prints
ParseFails ==
    /\ Popping
    /\ LET file_path == Head(files_to_process) IN
       /\ file_path \notin processed_files
       /\ ~ast_exists(ast_dir, file_path)
       /\ project.files[file_path].fault # "none"
       /\ files_to_process' = Tail(files_to_process)
       /\ IF project.files[file_path].fault = "read"
          THEN UNCHANGED <<parsed, analysed, api_index>>
          ELSE /\ parsed' = Counted(parsed, file_path)
               /\ analysed' = Counted(analysed, file_path)
               /\ api_index' = analyze_structures(api_index,
                                   project.files[file_path].declarations, file_path)
    /\ UNCHANGED <<project, ast_dir, work_pc, processed_files, dependency_tree,
                   saved_index, skipped, rule_vars, merge_vars, link_vars, call_vars>>

\* the while loop ends on an empty queue
LoopEnds ==
    /\ work_pc = "loop"
    /\ files_to_process = <<>>
    /\ work_pc' = "processed"
    /\ UNCHANGED <<project, ast_dir, processed_files, files_to_process,
                   dependency_tree, api_index, saved_index, parsed, analysed,
                   skipped, rule_vars, merge_vars, link_vars, call_vars>>

\* main: save_dependency_tree, save_api_index
SaveApiIndex ==
    /\ work_pc = "processed"
    /\ saved_index' = Some(api_index)
    /\ work_pc' = "done"
    /\ UNCHANGED <<project, ast_dir, processed_files, files_to_process,
                   dependency_tree, api_index, parsed, analysed, skipped,
                   rule_vars, merge_vars, link_vars, call_vars>>

\* a PHP file: the namespaces of its use statements, what goes wrong when
\* it is read or converted, and its declarations
PhpFile(uses, fault, declarations) ==
    [uses |-> uses, fault |-> fault, declarations |-> declarations]

PhpClass(name, parent) ==
    [type |-> "class_declaration", name |-> name, parent |-> parent]

RoutesPath == "routes/api.php"
ControllerPath == "app/Http/Controllers/UserController.php"
RequestPath == "app/Http/Requests/StoreUserRequest.php"
ModelPath == "app/Models/User.php"

ControllerUse == "App\\Http\\Controllers\\UserController"
RequestUse == "App\\Http\\Requests\\StoreUserRequest"
ModelUse == "\\App\\Models\\User"
VendorUse == "Illuminate\\Http\\Request"

Faults == {"none", "read", "convert"}

\* the files under app/: the controller and the request use each other and
\* the model, the model may use the controller back, and reading or
\* converting the model may fail
AppFiles(controller_uses, request_uses, model_uses, model_fault) ==
    (ControllerPath :> PhpFile(controller_uses, "none",
         <<PhpClass("UserController", Some("Controller"))>>))
    @@ (RequestPath :> PhpFile(request_uses, "none",
         <<[type |-> "trait_declaration", name |-> "HasUserRules", parent |-> None],
           PhpClass("StoreUserRequest", Some("FormRequest"))>>))
    @@ (ModelPath :> PhpFile(model_uses, model_fault,
         <<PhpClass("User", Some("Model")),
           [type |-> "enum_declaration", name |-> "UserStatus", parent |-> None]>>))

\* the routes file uses the controller, perhaps twice, and the request; one
\* project has no routes file
WorkProjects ==
    {[routes_file |-> RoutesPath,
      files |-> (RoutesPath :> PhpFile(routes_uses, "none", <<>>))
                @@ AppFiles(controller_uses, request_uses, model_uses, model_fault)] :
        routes_uses \in {<<ControllerUse, VendorUse>>,
                         <<ControllerUse, RequestUse>>,
                         <<ControllerUse, ControllerUse, RequestUse>>},
        controller_uses \in {<<ModelUse>>, <<RequestUse, ModelUse>>},
        request_uses \in {<<ModelUse>>, <<ControllerUse, ModelUse>>},
        model_uses \in {<<>>, <<ControllerUse>>},
        model_fault \in Faults}
    \cup {[routes_file |-> RoutesPath,
           files |-> AppFiles(<<ModelUse>>, <<ModelUse>>, <<>>, "none")]}

\* the AST files a former run left in the AST directory
CachedSets ==
    {{}, {ControllerPath}, {ModelPath}, {RequestPath, ModelPath}}

InitWork ==
    /\ project \in WorkProjects
    /\ \E cached \in CachedSets :
           ast_dir = [name \in {get_ast_file_path(f) : f \in cached} |->
                         LET f == CHOOSE f \in cached : get_ast_file_path(f) = name
                         IN project.files[f].uses]
    /\ work_pc = "start"
    /\ processed_files = {}
    /\ files_to_process = <<>>
    /\ dependency_tree = <<>>
    /\ api_index = NoApiIndex
    /\ saved_index = None
    /\ parsed = <<>>
    /\ analysed = <<>>
    /\ skipped = {}
    /\ RulesIdle
    /\ MergeIdle
    /\ LinkIdle
    /\ fn_call = [fn |-> "none"] /\ fn_result = None

NextWork ==
    \/ StartRoutes
    \/ PopProcessed
    \/ SkipCached
    \/ ParseAndSaveFile
    \/ ParseFails
    \/ LoopEnds
    \/ SaveApiIndex

SpecWork == InitWork /\ [][NextWork]_vars

\* the script runs on: a step that can be taken is taken
SpecWorkFair == SpecWork /\ WF_vars(NextWork)

----------------------------------------------------------------------------
(* Reading the last compiler call *)

Called == rule_call.fn # "none"
IsFull == rule_call.fn = "parse_validation_rule"
IsExt == rule_call.fn = "parse_validation_value"
Positions == IF Called THEN 1..Len(rule_call.tokens) ELSE {}
TokenAt(k) == rule_call.tokens[k]
Before(k) == rule_trace[k]
After(k) == rule_trace[k + 1]
FullRaised == IsFull /\ rule_result.raised

\* the numbers written in the catalogue's numeric parameters
NumberOf == [p \in {"3", "10"} |-> IF p = "3" THEN 3 ELSE 10]

IsNumericBound(t) ==
    t.name \in {"min", "max"} /\ Len(t.params) = 1 /\ t.params[1] \in DOMAIN NumberOf

IsBadBound(t) == t.name \in {"min", "max"} /\ ~IsNumericBound(t)

----------------------------------------------------------------------------
(* Reading a linker run *)

\* the Route:: declarations of the routes files the script looks for:
\* every verb for linker_full, GET for linker_get
RECURSIVE DeclaredIn(_, _)
DeclaredIn(fs, i) ==
    IF i > Len(fs) THEN <<>>
    ELSE (IF IsRoutesFile(fs[i])
          THEN SelectSeq(fs[i].route_calls,
                   LAMBDA n : /\ n.scope = "Route"
                              /\ linker = "linker_get" => Upper(n.name) = "GET")
          ELSE <<>>) \o DeclaredIn(fs, i + 1)

Declared == DeclaredIn(files, 1)

(***************************************************************************)
(* C1: when linking has finished, the linker has emitted one descriptor   *)
(* for every route declaration: as many descriptors as declarations       *)
(***************************************************************************)
C1_NoRouteDropped ==
    link_pc = "linked" => Len(linked) = Len(Declared)

----------------------------------------------------------------------------
(* Reading the request-class merge *)

Merged == combined_rules # None
MergedRules == combined_rules[1]

\* a field for which the trait source says nullable and rules() says required
C2_Case(f) ==
    /\ Merged /\ Loaded(request) /\ request.has_rules_method
    /\ f \in DOMAIN TraitRulesOf(request) /\ TraitRulesOf(request)[f] = "nullable"
    /\ f \in DOMAIN request.rules_dict /\ request.rules_dict[f] = "required"

----------------------------------------------------------------------------
(* C3: the merged map's keys are the union of the trait's and the          *)
(* method's; a field rules() declares has the method's entry, a field only *)
(* a trait contributes has the trait's; with no rules() method the result  *)
(* is exactly the trait rules                                               *)
C3_MergePrecedence ==
    (Merged /\ Loaded(request)) =>
        LET trait_rules == TraitRulesOf(request)
            rules_dict == request.rules_dict
        IN IF request.has_rules_method
           THEN /\ DOMAIN MergedRules = DOMAIN trait_rules \cup DOMAIN rules_dict
                /\ \A f \in DOMAIN rules_dict : MergedRules[f] = rules_dict[f]
                /\ \A f \in DOMAIN trait_rules \ DOMAIN rules_dict :
                       MergedRules[f] = trait_rules[f]
           ELSE MergedRules = trait_rules

C3_Witness ==
    /\ Merged /\ Loaded(request) /\ request.has_rules_method
    /\ DOMAIN TraitRulesOf(request) = MergeFields
    /\ DOMAIN request.rules_dict = {"status"}
    /\ TraitRulesOf(request)["status"] # request.rules_dict["status"]
    /\ MergedRules["status"] = request.rules_dict["status"]
    /\ MergedRules["per_page"] = TraitRulesOf(request)["per_page"]

----------------------------------------------------------------------------
(* C4: compiling the same rule text again, whatever was compiled in        *)
(* between, gives a structurally equal field schema                        *)

\* the schema a stored entry holds, apart from the name of its field
C4_Schema(entry) ==
    IF fields_fn.name = "parse_validation_array"
    THEN [entry EXCEPT !.field_name = ""]
    ELSE entry

----------------------------------------------------------------------------
(* C5: a min:N / max:N token sets a length bound when the type at that     *)
(* point is string and a numeric bound when it is integer or number,       *)
(* never both; parse_validation_value has one bound per direction, which   *)
(* the token sets; {required, max:10} alone gives required, string, max 10 *)

C5_FullBound(t, b, a) ==
    LET n == Some(NumberOf[t.params[1]])
        len_b == IF t.name = "min" THEN b.schema.minLength ELSE b.schema.maxLength
        len_a == IF t.name = "min" THEN a.schema.minLength ELSE a.schema.maxLength
        num_b == IF t.name = "min" THEN b.schema.minimum ELSE b.schema.maximum
        num_a == IF t.name = "min" THEN a.schema.minimum ELSE a.schema.maximum
    IN /\ ~a.raised
       /\ b.schema.type = "string" => len_a = n /\ num_a = num_b
       /\ b.schema.type \in {"integer", "number"} => num_a = n /\ len_a = len_b
       /\ ~(len_a # len_b /\ num_a # num_b)

C5_ExtBound(t, b, a) ==
    LET n == Some(NumberOf[t.params[1]]) IN
    IF t.name = "min"
    THEN a.min_value = n /\ a.max_value = b.max_value
    ELSE a.max_value = n /\ a.min_value = b.min_value

C5_Example ==
    (Called /\ rule_call.tokens = <<Tok("required", <<>>), Tok("max", <<"10">>)>>) =>
        /\ IsFull => /\ ~rule_result.raised
                     /\ rule_result.required
                     /\ rule_result.schema.type = "string"
                     /\ rule_result.schema.maxLength = Some(10)
                     /\ rule_result.schema.maximum = None
        /\ IsExt => /\ rule_result.required
                    /\ rule_result.field_type = "string"
                    /\ rule_result.max_value = Some(10)

\* C5: every min:N / max:N token sets the bound its current type calls for
\* and no other; required|max:10 gives required, string, max 10
C5_BoundFollowsType ==
    /\ \A k \in Positions :
         IsNumericBound(TokenAt(k)) =>
            /\ (IsFull /\ ~Before(k).raised) =>
                   C5_FullBound(TokenAt(k), Before(k), After(k))
            /\ IsExt => C5_ExtBound(TokenAt(k), Before(k), After(k))
    /\ C5_Example

C5_Witness ==
    /\ IsFull
    /\ rule_call.tokens = <<Tok("integer", <<>>), Tok("max", <<"10">>)>>
    /\ rule_result.schema.maximum = Some(10)
    /\ rule_result.schema.maxLength = None

----------------------------------------------------------------------------
(* C6: a min: or max: token whose parameter is not a number is ignored:   *)
(* the call does not raise and returns what the other tokens alone give   *)

C6_GoodTokens == SelectSeq(rule_call.tokens, LAMBDA t : ~IsBadBound(t))

\* C6: a min/max token with a non-numeric parameter is ignored without an
\* error, and the result is that of the rule list without the token
C6_LenientBounds ==
    (Called /\ \E k \in Positions : IsBadBound(TokenAt(k))) =>
        /\ IsFull => rule_result = parse_validation_rule(RuleString(C6_GoodTokens))
        /\ IsExt => [rule_result EXCEPT !.rules = <<>>] =
                    [parse_validation_value(StringNode(C6_GoodTokens))
                        EXCEPT !.rules = <<>>]

----------------------------------------------------------------------------
(* C7: required is true iff the list has the token required; nullable is  *)
(* true iff it has the token nullable or the token sometimes              *)
C7_FlagDerivation ==
    (Called /\ ~FullRaised) =>
        /\ rule_result.required <=>
               \E k \in Positions : TokenAt(k).name = "required"
        /\ rule_result.nullable <=>
               \E k \in Positions : TokenAt(k).name \in {"nullable", "sometimes"}

----------------------------------------------------------------------------
(* C8 as specified: each of string, integer, numeric, boolean, array, file, *)
(* image sets the primitive type, the last of them wins, none raises      *)

TypeTokens == {"string", "integer", "numeric", "boolean", "array", "file", "image"}

TypeOfResult == IF IsFull THEN rule_result.schema.type ELSE rule_result.field_type

\* the type a token of parse_validation_rule stands for
OpenApiType(name) == IF name = "numeric" THEN "number" ELSE name

C8_LastTypeToken(names) ==
    LET ks == {k \in Positions : TokenAt(k).name \in names} IN
    IF ks = {} THEN None
    ELSE Some(TokenAt(CHOOSE k \in ks : \A j \in ks : j <= k).name)

\* C8 as specified: the resulting type is that of the last type token
C8_EveryTypeTokenSetsType ==
    (Called /\ ~FullRaised) =>
        LET last == C8_LastTypeToken(TypeTokens) IN
        last # None =>
            TypeOfResult = IF IsFull THEN OpenApiType(last[1]) ELSE last[1]

(* C8 as the code has it: parse_validation_value takes all seven tokens;  *)
(* parse_validation_rule takes string, integer, numeric (as number),      *)
(* boolean and array, leaves the type alone on file and image, and date / *)
(* datetime force string; the last type-setting token wins; a type token  *)
(* never raises                                                            *)

FullTypeSetters == {"string", "integer", "numeric", "boolean", "array", "date", "datetime"}

C8_FullTypeOf(name) ==
    IF name \in {"date", "datetime"} THEN "string" ELSE OpenApiType(name)

\* C8 as the code has it: in linker_full file and image set nothing and
\* date/datetime force string; in the extractor the last of the seven wins
C8_TypeDerivation ==
    /\ (IsExt) =>
          LET last == C8_LastTypeToken(TypeTokens) IN
          rule_result.field_type = IF last = None THEN "string" ELSE last[1]
    /\ (IsFull /\ ~FullRaised) =>
          LET last == C8_LastTypeToken(FullTypeSetters) IN
          rule_result.schema.type =
              IF last = None THEN "string" ELSE C8_FullTypeOf(last[1])
    /\ \A k \in Positions :
          (IsFull /\ TokenAt(k).name \in TypeTokens /\ ~Before(k).raised) =>
              /\ ~After(k).raised
              /\ TokenAt(k).name \in {"file", "image"} =>
                     After(k).schema.type = Before(k).schema.type

C8_Witness ==
    /\ IsFull
    /\ rule_call.tokens = <<Tok("integer", <<>>), Tok("boolean", <<>>)>>
    /\ rule_result.schema.type = "boolean"

----------------------------------------------------------------------------
(* C9: a token in:v1,...,vn sets the allowed values to exactly            *)
(* [v1,...,vn] in that order; required|in:active,archived gives required  *)
(* and enum [active, archived]                                             *)

C9_Example ==
    (Called /\ rule_call.tokens =
         <<Tok("required", <<>>), Tok("in", <<"active", "archived">>)>>) =>
        /\ rule_result.required
        /\ IsFull => rule_result.schema.enum = Some(<<"active", "archived">>)
        /\ IsExt => rule_result.enum_values = <<"active", "archived">>

\* C9: an in:v1,...,vn token makes <<v1, ..., vn>> the enumerated values, in
\* order; required|in:active,archived gives required and active, archived
C9_EnumFromIn ==
    /\ \A k \in Positions :
          TokenAt(k).name = "in" =>
             /\ (IsFull /\ ~Before(k).raised) =>
                    After(k).schema.enum = Some(TokenAt(k).params)
             /\ IsExt => After(k).enum_values = TokenAt(k).params
    /\ C9_Example

C9_Witness ==
    /\ IsExt
    /\ rule_call.tokens =
           <<Tok("required", <<>>), Tok("in", <<"active", "archived">>)>>
    /\ rule_result.enum_values = <<"active", "archived">>

----------------------------------------------------------------------------
(* C10: an enum-reference token that resolves to no case values leaves    *)
(* the field's enumerated values as they were before the token            *)
C10_EnumTokenKeepsValues ==
    \A k \in Positions :
        StartsWith(TokenAt(k).name, "enum") =>
            /\ (IsFull /\ ~Before(k).raised) =>
                   After(k).schema.enum = Before(k).schema.enum
            /\ IsExt => After(k).enum_values = Before(k).enum_values

----------------------------------------------------------------------------
(* Reading a call of extract_enum_cases *)

EnumCalled == fn_call.fn = "extract_enum_cases" /\ fn_result # None

\* the case declarations of the enum, in declaration order
DeclaredCases == SelectSeq(fn_call.members, LAMBDA m : m.kind = "case")

\* the literal a case declares, without its quotes, or its name
DeclaredValue(m) ==
    IF m.literal # None THEN StripQuotes(m.literal[1].text) ELSE m.name

\* the value an entry stands for: its value when it has one, else its name
ResolvedValue(entry) == IF entry.value # None THEN entry.value[1] ELSE entry.name

\* C11: the result has one entry per case declaration, in declaration
\* order, and each entry resolves to the case's literal value when it
\* declares one and to the case's name otherwise
C11_EnumCases ==
    EnumCalled =>
        /\ Len(fn_result[1]) = Len(DeclaredCases)
        /\ \A k \in 1..Len(DeclaredCases) :
              /\ fn_result[1][k].name = DeclaredCases[k].name
              /\ ResolvedValue(fn_result[1][k]) = DeclaredValue(DeclaredCases[k])

----------------------------------------------------------------------------
(* Reading the dict parse_validation_array has built so far *)

Folding == fields_fn.name = "parse_validation_array"

\* the flat names folded so far
Folded == DOMAIN rule_src

HasStar(name) == \E k \in 1..Len(Split(name, ".")) : Split(name, ".")[k] = "*"

\* a dotted name without a '*' segment
IsDotted(name) == Contains(name, ".") /\ ~HasStar(name)

\* the schema has the path: an object per leading segment, the last beneath
RECURSIVE HasObjectPath(_, _)
HasObjectPath(fields, parts) ==
    /\ parts[1] \in DOMAIN fields
    /\ Len(parts) > 1 =>
          /\ fields[parts[1]].field_type = "object"
          /\ HasObjectPath(fields[parts[1]].nested_fields, Tail(parts))

\* C12: a folded dotted name without '*' is an object field named by its
\* first segment with the last segment nested beneath it, and no top-level
\* key contains a '.'
C12_DottedNameIsNestedObject ==
    Folding =>
        /\ \A name \in Folded :
              IsDotted(name) => HasObjectPath(rules, Split(name, "."))
        /\ \A key \in DOMAIN rules : ~Contains(key, ".")

\* the array elements of the names folded so far, in the order given
ElementsIn(order) ==
    [k \in 1..Len(order) |->
        [key |-> "'" \o order[k] \o "'",
         value |-> [type |-> "string", text |-> "'" \o rule_src[order[k]] \o "'"]]]

\* the orders in which a set of names can be processed
Orders(names) ==
    {order \in [1..Cardinality(names) -> names] :
        \A i, j \in 1..Cardinality(names) : i # j => order[i] # order[j]}

\* C13: when the names folded so far are distinct, folding them in any
\* other order gives the dict that was built
C13_FoldOrderIndependent ==
    (Folding /\ elems_done = Cardinality(Folded)) =>
        \A order \in Orders(Folded) :
            parse_validation_array(ElementsIn(order)) = rules

\* the schema compiled for the rule text folded under the flat name
Compiled(name) ==
    parse_validation_value([type |-> "string", text |-> "'" \o rule_src[name] \o "'"])

\* C14: after the single entry base.*.leaf -> E is folded, the dict has the
\* one top-level field base, an array, whose nested fields are the one
\* field leaf, equal to E under the name leaf
C14_WildcardFold ==
    (Folding /\ elems_done = 1) =>
        \A name \in Folded :
            LET parts == Split(name, ".") IN
            (Len(parts) = 3 /\ parts[2] = "*" /\ parts[1] # "*" /\ parts[3] # "*") =>
                /\ DOMAIN rules = {parts[1]}
                /\ rules[parts[1]].is_array
                /\ DOMAIN rules[parts[1]].nested_fields = {parts[3]}
                /\ rules[parts[1]].nested_fields[parts[3]] =
                       [Compiled(name) EXCEPT !.field_name = parts[3]]

C14_Witness ==
    /\ Folding /\ elems_done = 1
    /\ rule_src = ("items.*.name" :> "required")
    /\ rules["items"].is_array
    /\ rules["items"].nested_fields["name"].required

\* a name base.*.leaf
IsArrayItemName(name) ==
    LET parts == Split(name, ".") IN
    Len(parts) = 3 /\ parts[2] = "*" /\ parts[1] # "*" /\ parts[3] # "*"

\* C15: every name base.*.leaf folded so far has its leaf among the nested
\* fields of the one array field base: a later name sharing the base
\* reuses the field and discards nothing
C15_SharedArrayFieldReused ==
    Folding =>
        \A name \in Folded :
            IsArrayItemName(name) =>
                LET parts == Split(name, ".") IN
                /\ parts[1] \in DOMAIN rules
                /\ rules[parts[1]].is_array
                /\ parts[3] \in DOMAIN rules[parts[1]].nested_fields

\* the place of the first '*' segment
FirstStar(parts) == MinOf({k \in 1..Len(parts) : parts[k] = "*"})

\* C16: after a single name with a '*' segment is folded, the field named
\* by the segment just before the first '*' is an array (type array, is_array
\* set), the segments after that '*', joined with '.', name its nested
\* field, and no nested field name contains '*'
C16_WildcardDecomposition ==
    (Folding /\ elems_done = 1) =>
        \A name \in Folded :
            LET parts == Split(name, ".") IN
            (HasStar(name) /\ FirstStar(parts) > 1) =>
                LET star == FirstStar(parts)
                    base == parts[star - 1]
                    rest == SubSeq(parts, star + 1, Len(parts))
                IN /\ base \in DOMAIN rules
                   /\ rules[base].field_type = "array"
                   /\ rules[base].is_array
                   /\ rest # <<>> => JoinWith(rest, ".") \in DOMAIN rules[base].nested_fields
                   /\ \A key \in DOMAIN rules[base].nested_fields : ~Contains(key, "*")

\* every field of the mapping, and of the mappings nested in it, has the
\* non-empty name it is stored under
RECURSIVE NamedByKey(_)
NamedByKey(fields) ==
    \A key \in DOMAIN fields :
        /\ key # ""
        /\ fields[key].field_name = key
        /\ NamedByKey(fields[key].nested_fields)

\* C17: every field of the request schema built so far, top-level or
\* nested, carries a non-empty field name equal to its key
C17_FieldNamedByKey == Folding => NamedByKey(rules)

----------------------------------------------------------------------------
(* Reading a call of parse_response_array *)

\* every array field of the mapping, at any depth, has nested fields; the
\* field records have no attribute for an element type
RECURSIVE ArraysHaveElements(_)
ArraysHaveElements(fields) ==
    \A key \in DOMAIN fields :
        /\ fields[key].is_array => fields[key].nested_fields # <<>>
        /\ ArraysHaveElements(fields[key].nested_fields)

\* C18: in the response schema returned, a field with is_array set has a
\* non-empty nested-field mapping, also when its value is an empty array
C18_ArrayFieldHasElementSchema ==
    (fn_call.fn = "parse_response_array" /\ fn_result # None) =>
        ArraysHaveElements(fn_result[1])

----------------------------------------------------------------------------
(* Path parameters *)

PathCalled ==
    fn_call.fn \in {"extract_route_parameters", "extract_path_parameters"}
        /\ fn_result # None

IsIdent(name) ==
    /\ Len(name) > 0
    /\ InChars(CharAt(name, 1), IdentStart)
    /\ \A i \in 1..Len(name) : InChars(CharAt(name, i), WordChars)

\* the text between the braces at i and j is a name, or a name and a '?'
IsPlaceholder(s, i, j) ==
    /\ i < j /\ CharAt(s, i) = "{" /\ CharAt(s, j) = "}"
    /\ LET inner == Slice(s, i + 1, j - 1) IN
       \/ IsIdent(inner)
       \/ EndsWith(inner, "?") /\ IsIdent(Slice(inner, 1, Len(inner) - 1))

\* the placeholders of a path, left to right, as <<name, optional>>
RECURSIVE PlaceholdersFrom(_, _)
PlaceholdersFrom(s, i) ==
    IF i > Len(s) THEN <<>>
    ELSE IF \E j \in 1..Len(s) : IsPlaceholder(s, i, j)
         THEN LET j == CHOOSE j \in 1..Len(s) : IsPlaceholder(s, i, j)
                  optional == CharAt(s, j - 1) = "?"
                  name == Slice(s, i + 1, IF optional THEN j - 2 ELSE j - 1)
              IN <<(<<name, optional>>)>> \o PlaceholdersFrom(s, i + 1)
         ELSE PlaceholdersFrom(s, i + 1)

\* what the call returned, as <<name, optional>> (optional = not required)
ReturnedParams ==
    LET params == fn_result[1] IN
    [k \in 1..Len(params) |->
        IF fn_call.fn = "extract_route_parameters"
        THEN <<params[k].name, params[k].optional>>
        ELSE <<params[k].name, ~params[k].required>>]

NamedParam(p) == IsIdent(p[1])

\* C19: the parameters returned are one per {name} and {name?} placeholder
\* of the path, left to right, optional exactly for those written with '?'
C19_PathParameters ==
    PathCalled =>
        SelectSeq(ReturnedParams, NamedParam) = PlaceholdersFrom(fn_call.path, 1)

\* the same, of laravel_api_extractor.extract_route_parameters alone
C19_RouteParametersOnly ==
    (PathCalled /\ fn_call.fn = "extract_route_parameters") =>
        ReturnedParams = PlaceholdersFrom(fn_call.path, 1)

----------------------------------------------------------------------------
(* Target resolution *)

Linked == link_pc = "linked"

\* the positions of the index whose fully-qualified name contains the reference
Containing(ref) == {k \in 1..Len(class_index) : Contains(class_index[k].key, ref)}

\* the entry no earlier containing entry comes before
Target(ref) ==
    class_index[CHOOSE k \in Containing(ref) :
                    \A j \in Containing(ref) : k <= j].value

SimpleName(fqn) == LET parts == Split(fqn, "\\") IN parts[Len(parts)]

\* the routes that name a class and an action, by position
Referring == {k \in 1..Len(routes) :
                 Truthy(routes[k].controller) /\ Truthy(routes[k].action)}

Resolved(k) == Containing(routes[k].controller[1]) # {}

\* the route is linked: its target is resolved and has the action
Reaches(k) ==
    /\ k \in Referring
    /\ Resolved(k)
    /\ find_method_in_class(Target(routes[k].controller[1]).node,
                            routes[k].action[1]) # None

\* the position in routes of the n-th linked route
NthReaching(n) ==
    CHOOSE k \in 1..Len(routes) :
        Reaches(k) /\ Cardinality({j \in 1..k : Reaches(j)}) = n

\* what linking the route to the method attaches to it
ResponseVia(method_node) ==
    IF linker = "linker_full"
    THEN extract_response_from_method(method_node, class_index)
    ELSE extract_response_schema(method_node, class_index)

\* C20: every linked route is linked to the action of the first index entry,
\* in insertion order, whose fully-qualified name contains its class
\* reference; a route whose reference no entry contains is not linked
C20_FirstContainingEntry ==
    Linked =>
        /\ Len(linked) = Cardinality({k \in 1..Len(routes) : Reaches(k)})
        /\ \A n \in 1..Len(linked) :
               LET route == routes[NthReaching(n)]
                   method_node ==
                       find_method_in_class(Target(route.controller[1]).node,
                                            route.action[1])[1]
               IN /\ linked[n].controller = route.controller[1]
                  /\ linked[n].action = route.action[1]
                  /\ linked[n].response = ResponseVia(method_node)
                  /\ linker = "linker_full" =>
                        linked[n].parameters =
                            extract_request_from_method(method_node,
                                                        class_index).value

\* a route names UserController, an earlier entry's name contains that and a
\* later entry's simple name is that exactly; the earlier one has no such
\* action, and the route is left out
C20_Witness ==
    /\ Linked
    /\ \E k \in Referring :
           /\ Cardinality(Containing(routes[k].controller[1])) > 1
           /\ \E j \in Containing(routes[k].controller[1]) :
                  /\ SimpleName(class_index[j].key) = routes[k].controller[1]
                  /\ class_index[j].value # Target(routes[k].controller[1])
                  /\ find_method_in_class(class_index[j].value.node,
                                          routes[k].action[1]) # None
           /\ ~Reaches(k)
           /\ \A n \in 1..Len(linked) : linked[n].action # routes[k].action[1]
    /\ \E k \in Referring : ~Resolved(k)

----------------------------------------------------------------------------
(* The class index *)

IndexBuilt == fn_call.fn = "build_class_index" /\ fn_result # None

\* the fully-qualified name a file gives a declaration
FqnOf(file_data, d) ==
    IF file_data.namespace = "" THEN d.name
    ELSE file_data.namespace \o "\\" \o d.name

\* the positions of the scanned files that declare a class of that name
ClassDeclaring(fs, fqn) ==
    {i \in 1..Len(fs) :
        \E k \in 1..Len(fs[i].classes) : FqnOf(fs[i], fs[i].classes[k]) = fqn}

LastOf(ks) == CHOOSE k \in ks : \A j \in ks : j <= k

\* C21: in the index built over a file sequence each fully-qualified name
\* has exactly one entry, and the entry of a name several files declare is
\* the declaration of the file scanned last
C21_LastWriteWins ==
    IndexBuilt =>
        LET fs == fn_call.files
            index == fn_result[1]
        IN /\ \A j, k \in 1..Len(index) : index[j].key = index[k].key => j = k
           /\ \A k \in 1..Len(index) :
                  LET is == ClassDeclaring(fs, index[k].key) IN
                  /\ is # {}
                  /\ index[k].value.file = fs[LastOf(is)].file
                  /\ \E c \in 1..Len(fs[LastOf(is)].classes) :
                         index[k].value.node = fs[LastOf(is)].classes[c]

\* two scanned files declare App\Models\User and the index has the later one
C21_Witness ==
    /\ IndexBuilt
    /\ \E i, j \in ClassDeclaring(fn_call.files, "App\\Models\\User") :
           /\ i < j
           /\ fn_call.files[i].file # fn_call.files[j].file
           /\ \E k \in 1..Len(fn_result[1]) :
                  /\ fn_result[1][k].key = "App\\Models\\User"
                  /\ fn_result[1][k].value.file = fn_call.files[j].file

----------------------------------------------------------------------------
(* What the class index records *)

RecordedTypes == {"class_declaration", "enum_declaration", "trait_declaration"}

\* C22: the index has, for every class, enum and trait declared in the
\* scanned files, an entry under its fully-qualified name that holds a
\* declaring file and the declaration node
C22_IndexRecordsEveryDeclaration ==
    IndexBuilt =>
        LET fs == fn_call.files
            index == fn_result[1]
        IN \A i \in 1..Len(fs) : \A d \in 1..Len(fs[i].declarations) :
               fs[i].declarations[d].type \in RecordedTypes =>
                   \E k \in 1..Len(index) :
                       /\ index[k].key = FqnOf(fs[i], fs[i].declarations[d])
                       /\ \E j \in 1..Len(fs) :
                              /\ index[k].value.file = fs[j].file
                              /\ \E c \in 1..Len(fs[j].declarations) :
                                     index[k].value.node = fs[j].declarations[c]

\* the same of class declarations alone
C22_IndexRecordsEveryClass ==
    IndexBuilt =>
        LET fs == fn_call.files
            index == fn_result[1]
        IN \A i \in 1..Len(fs) : \A d \in 1..Len(fs[i].classes) :
               \E k \in 1..Len(index) :
                   index[k].key = FqnOf(fs[i], fs[i].classes[d])

----------------------------------------------------------------------------
(* The class index after construction *)

\* C23: once the index is built no step of the linker adds, removes or
\* replaces an entry: every later step leaves class_index as it was
C23_IndexReadOnly ==
    [][link_pc # "load" => class_index' = class_index]_vars

\* linking has finished with a route linked, and the index is the one built
C23_Witness ==
    /\ Linked
    /\ linked # <<>>
    /\ \E n \in 1..Len(linked) : linked[n].response # <<>>
    /\ class_index # <<>>
    /\ class_index = build_class_index(files)

----------------------------------------------------------------------------
(* The order the files are merged into the index *)

\* no two files of the sequence declare the same fully-qualified name
DistinctFqns(fs) ==
    \A i, j \in 1..Len(fs) :
        \A c \in 1..Len(fs[i].classes), d \in 1..Len(fs[j].classes) :
            FqnOf(fs[i], fs[i].classes[c]) = FqnOf(fs[j], fs[j].classes[d])
                => (i = j /\ c = d)

\* what the linker gives with the index built over the files in that order
LinkOutput(fs) ==
    IF linker = "linker_full"
    THEN link_routes_to_schemas(routes, build_class_index(fs)).value
    ELSE link_get_routes(routes, build_class_index(fs))

\* C24: when no two files declare the same fully-qualified name, the routes
\* are linked the same whatever the order the files went into the index
C24_MergeOrderIndependent ==
    (Linked /\ DistinctFqns(files)) =>
        \A fs \in Reorderings(files) : LinkOutput(fs) = linked

----------------------------------------------------------------------------
(* Response extraction over the return statements *)

ResponseCalled ==
    fn_call.fn \in {"extract_response_from_method", "extract_response_schema"}
        /\ fn_result # None

\* the schema the script derives from a field-mapping method
SchemaOf(to_array) ==
    IF fn_call.fn = "extract_response_from_method"
    THEN extract_array_schema_from_method(to_array)
    ELSE parse_to_array_method(to_array)

\* the non-empty schemas of the Resource / Transformer classes the text of
\* return statement k names
SchemasAt(k) ==
    {SchemaOf(ToArrayOf(ResourceIndex[j].value.node)[1]) :
        j \in {j \in 1..Len(ResourceIndex) :
                 LET class_name == ShortName(ResourceIndex[j].key) IN
                 /\ ContainsAny(class_name, {"Resource", "Transformer"})
                 /\ Contains(fn_call.method_node.returns[k], class_name)
                 /\ ToArrayOf(ResourceIndex[j].value.node) # None}} \ {<<>>}

Yielding == {k \in 1..Len(fn_call.method_node.returns) : SchemasAt(k) # {}}

\* C25: the result is a schema of the earliest return statement that names
\* a transformer class whose field-mapping method yields one; a candidate
\* without a schema does not end the search; the result is empty only when
\* no return statement yields a schema
C25_FirstYieldingReturn ==
    ResponseCalled =>
        IF Yielding = {} THEN fn_result[1] = <<>>
        ELSE fn_result[1] \in SchemasAt(MinOf(Yielding))

\* the same of linker_get.extract_response_schema alone
C25_GetFirstYieldingReturn ==
    (ResponseCalled /\ fn_call.fn = "extract_response_schema") =>
        IF Yielding = {} THEN fn_result[1] = <<>>
        ELSE fn_result[1] \in SchemasAt(MinOf(Yielding))

----------------------------------------------------------------------------
(* Field types by field name *)

InferCalled ==
    fn_call.fn \in {"infer_type_from_value", "infer_type",
                    "extract_array_schema_from_method"}
        /\ fn_result # None

BooleanName(name) == ContainsAny(name, {"is_", "has_"})
DateName(name) == ContainsAny(name, {"_at", "date"})
IntegerName(name) == ContainsAny(name, {"_id", "count"})

\* C26: a response field whose name has is_ or has_ is boolean, one whose
\* name has _at or date is a string with date-time format, one whose name
\* has _id or count is integer (names with fragments of one kind only)
C26_TypeByFieldName ==
    InferCalled =>
        LET name == fn_call.field_name
            schema == fn_result[1]
        IN /\ (BooleanName(name) /\ ~DateName(name) /\ ~IntegerName(name))
                  => schema = [type |-> "boolean"]
           /\ (DateName(name) /\ ~BooleanName(name) /\ ~IntegerName(name))
                  => schema = [type |-> "string", format |-> "date-time"]
           /\ (IntegerName(name) /\ ~BooleanName(name) /\ ~DateName(name))
                  => schema = [type |-> "integer"]

----------------------------------------------------------------------------
(* Tree search *)

SearchCalled ==
    fn_call.fn \in {"extract_specific_nodes", "find_method_in_class"}
        /\ fn_result # None

\* a path is the sequence of child positions from the root down to a node
MaxDepth == 4

RECURSIVE NodeAt(_, _)
NodeAt(node, path) ==
    IF path = <<>> THEN node
    ELSE NodeAt(node.children[path[1]], Tail(path))

RECURSIVE IsPath(_, _)
IsPath(node, path) ==
    \/ path = <<>>
    \/ /\ path[1] \in 1..Len(node.children)
       /\ IsPath(node.children[path[1]], Tail(path))

PathsOf(root) ==
    {path \in UNION {[1..n -> 1..(MaxChildren + 1)] : n \in 0..MaxDepth} :
        IsPath(root, path)}

\* depth-first pre-order: a node before the nodes below it, a subtree
\* before the subtrees to its right
Precedes(p, q) ==
    \/ Len(p) < Len(q) /\ SubSeq(q, 1, Len(p)) = p
    \/ \E i \in 1..Len(p) :
           /\ i <= Len(q)
           /\ SubSeq(p, 1, i - 1) = SubSeq(q, 1, i - 1)
           /\ p[i] < q[i]

RECURSIVE InPreOrder(_)
InPreOrder(paths) ==
    IF paths = {} THEN <<>>
    ELSE LET first == CHOOSE p \in paths : \A q \in paths \ {p} : Precedes(p, q)
         IN <<first>> \o InPreOrder(paths \ {first})

Satisfies(node) ==
    IF fn_call.fn = "extract_specific_nodes"
    THEN node.type \in fn_call.node_types
    ELSE IsMethodNamed(node, fn_call.method_name)

Matching == {path \in PathsOf(fn_call.root) : Satisfies(NodeAt(fn_call.root, path))}

\* C27: find-all returns the nodes that satisfy the predicate, each once,
\* in depth-first pre-order; find-first returns the first of them; with no
\* match the result is the empty list / None; the tree is still a tree of
\* the catalogue
C27_TreeSearch ==
    SearchCalled =>
        LET ordered == InPreOrder(Matching) IN
        /\ fn_call.root \in ClassTrees
        /\ fn_call.fn = "extract_specific_nodes" =>
               fn_result[1] = [k \in 1..Len(ordered) |->
                                  NodeAt(fn_call.root, ordered[k])]
        /\ fn_call.fn = "find_method_in_class" =>
               fn_result[1] = IF Matching = {} THEN None
                              ELSE Some(NodeAt(fn_call.root, ordered[1]))

\* a find-all with a match inside a match and another match to the right
C27_Witness ==
    /\ SearchCalled
    /\ fn_call.fn = "extract_specific_nodes"
    /\ \E p, q, r \in Matching :
           /\ Len(p) < Len(q) /\ SubSeq(q, 1, Len(p)) = p
           /\ Precedes(q, r) /\ SubSeq(r, 1, Len(p)) # p
    /\ Len(fn_result[1]) = Cardinality(Matching)

----------------------------------------------------------------------------
(* The worklist of process_routes *)

WorkStarted == work_pc # "idle"

DirectUses(proj, f) ==
    {namespace_to_file(proj, proj.files[f].uses[k])[1] :
        k \in {k \in 1..Len(proj.files[f].uses) :
                  namespace_to_file(proj, proj.files[f].uses[k]) # None}}

\* the files reached from a set of files over at most n use statements
RECURSIVE UsesWithin(_, _, _)
UsesWithin(proj, reached, n) ==
    IF n = 0 THEN reached
    ELSE UsesWithin(proj, reached \cup UNION {DirectUses(proj, f) : f \in reached},
                    n - 1)

\* a file with a use statement that leads, over use statements, back to it
CyclicUses(proj) ==
    \E f \in DOMAIN proj.files :
        f \in UsesWithin(proj, DirectUses(proj, f), Cardinality(DOMAIN proj.files))

\* C28: the worklist of process_routes terminates: under the fairness of a
\* running script the loop is left in every run, whatever the use statements,
\* the repeated enqueues and the files that fail to parse
C28_WorklistTerminates == <>(work_pc \in {"processed", "done"})

\* a finished run over cyclic use statements in which a file was popped when
\* already processed and the parsing of another failed
C28_Witness ==
    /\ work_pc = "done"
    /\ RoutesPath \in processed_files
    /\ CyclicUses(project)
    /\ project.files[ModelPath].fault # "none"
    /\ ModelPath \notin processed_files
    /\ Count(analysed, ModelPath) + Count(parsed, ModelPath) > 0
    /\ Len(project.files[RoutesPath].uses) = 3
    /\ files_to_process = <<>>

----------------------------------------------------------------------------
(* Files parsed once; files skipped for their AST file *)

\* C29: within one run of process_routes no file is parsed or
\* structure-analysed more than once, however often it is enqueued and
\* whether or not its processing ended in an error
C29_ParsedAtMostOnce ==
    WorkStarted =>
        \A f \in DOMAIN project.files :
            Count(parsed, f) <= 1 /\ Count(analysed, f) <= 1

\* what does hold: a file whose processing did not end in an error is
\* parsed and analysed at most once
C29_ParsedOnceWithoutError ==
    WorkStarted =>
        \A f \in DOMAIN project.files :
            project.files[f].fault = "none" =>
                Count(parsed, f) <= 1 /\ Count(analysed, f) <= 1

\* the entries of an index that the declarations of a file account for
EntriesFrom(index, f) ==
    {<<category, name>> \in
            UNION {{category} \X DOMAIN index[category] : category \in DOMAIN index} :
        index[category][name].file = f}

IndexedFiles(index) ==
    {index[category][name].file :
        <<category, name>> \in
            UNION {{category} \X DOMAIN index[category] : category \in DOMAIN index}}

\* C30: a file whose AST file exists is skipped: it is marked processed and
\* its cached dependencies are looked at, it is never parsed or analysed in
\* the run and has no entry in the API index; the saved index holds only
\* declarations of files parsed in the run
C30_CachedFileSkipped ==
    WorkStarted =>
        /\ \A f \in skipped :
               /\ f \in processed_files
               /\ f \in DOMAIN dependency_tree
               /\ dependency_tree[f].dependencies = ast_dir[get_ast_file_path(f)]
               /\ Count(parsed, f) = 0
               /\ Count(analysed, f) = 0
               /\ EntriesFrom(api_index, f) = {}
        /\ saved_index # None =>
               \A f \in IndexedFiles(saved_index[1]) :
                   Count(parsed, f) > 0 /\ f \notin skipped

\* the step that skips: the dependencies in the AST file that are not yet
\* processed go to the end of the queue, and nothing is parsed
C30_SkipEnqueuesCached ==
    [][SkipCached =>
          /\ files_to_process' =
                 EnqueueDependencies(Tail(files_to_process), project,
                     ast_dir[get_ast_file_path(Head(files_to_process))], 1,
                     processed_files \cup {Head(files_to_process)})
          /\ parsed' = parsed /\ analysed' = analysed /\ api_index' = api_index]_vars

\* a saved index after a run that skipped the model, whose dependency was
\* enqueued from the AST file, and parsed the controller
C30_Witness ==
    /\ work_pc = "done"
    /\ ModelPath \in skipped
    /\ project.files[ModelPath].uses = <<ControllerUse>>
    /\ EntriesFrom(saved_index[1], ControllerPath) # {}
    /\ EntriesFrom(saved_index[1], ModelPath) = {}
    /\ Count(parsed, ControllerPath) = 1

============================================================================
